---- MODULE Spec2Model ----
(***************************************************************************)
(* A model of the ifql evaluator (src/ifql/eval.go), of the function and   *)
(* method registries, of the push-down rules of the planner, of the filter *)
(* transformation (src/functions/filter.go), of the select source and the  *)
(* storage reader with its block iterator, and of the max selector.        *)
(*                                                                         *)
(* Go values are modelled with their sharing: a *CallChain is an index in  *)
(* the heap `chains`, a slice is (backing array, len, cap) and the backing *)
(* arrays live in `opArrays` and `edgeArrays`, so that a struct copy       *)
(* shares the arrays the way the Go code does.                             *)
(***************************************************************************)
EXTENDS Integers, Sequences, FiniteSets, TLC

VARIABLES
    functionsMap,   \* var functionsMap: name -> constructor (NilCtor: nil func)
    methodMap,      \* var methodMap
    regPanic,       \* the last Register* call panicked
    regLast,        \* the last Register* call: registry, name, constructor
    id,             \* evaluator.id
    scope,          \* evaluator.scope.vars
    operations,     \* evaluator.operations
    edges,          \* evaluator.edges
    chains,         \* heap of CallChain structs, a *CallChain is an index
    opArrays,       \* backing arrays of the CallChain.Operations slices
    edgeArrays,     \* backing arrays of the CallChain.Edges slices
    created,        \* history: the operations createOp returned, in order
    calls,          \* history: one record per createOp call
    links,          \* history: one record per successful callFunction
    lastStmt,       \* history: the statement evaluated last
    nstmts,         \* how many statements of the program were evaluated
    result,         \* what Evaluate returned (or that it panicked)
    plan,           \* the planner: the logical plan and the plan being rewritten
    filter,         \* the filter transformation, its builder cache, its last call
    storage,        \* the storage block iterator, its stream and its consumer
    selector        \* the max selector of a max transformation and its calls

regVars == <<functionsMap, methodMap, regPanic, regLast>>
evVars == <<id, scope, operations, edges, chains, opArrays, edgeArrays,
            created, calls, links, lastStmt, nstmts, result>>
execVars == <<filter, storage, selector>>
vars == <<regVars, evVars, plan, execVars>>

(***************************************************************************)
(* Bounds of the model.                                                    *)
(***************************************************************************)
MaxStmts == 3        \* statements of a program of Spec
MaxMethods == 2      \* member calls of one chain expression of Spec
MaxLongStmts == 11   \* statements of a program of SpecIDs
MaxArgStmts == 2     \* statements of a program of SpecArgs
MaxProps == 2        \* keywords of one call of SpecArgs
MaxExprStmts == 1    \* statements of a program of SpecExpr
MaxRegs == 3         \* Register* calls of SpecRegister
MaxProcs == 4        \* procedures of a logical plan of SpecPlan

(***************************************************************************)
(* Strings that are formatted are sequences of characters.                 *)
(***************************************************************************)
Digits == <<"0", "1", "2", "3", "4", "5", "6", "7", "8", "9">>

RECURSIVE Decimal(_)
\* fmt's %d of a non-negative int
Decimal(n) ==
    IF n < 10 THEN <<Digits[n + 1]>>
    ELSE Decimal(n \div 10) \o <<Digits[(n % 10) + 1]>>

\* fmt.Sprintf("%s%d", name, n)
Sprintf(name, n) == name \o Decimal(n)

NoErr == "nil"
Panic == "panic"

(***************************************************************************)
(* Slices and their backing arrays.                                        *)
(***************************************************************************)
NilSlice == [arr |-> 0, len |-> 0, cap |-> 0]
NilOp == [ID |-> <<>>, n |-> -1, kind |-> <<>>]
NilEdge == [Parent |-> <<>>, Child |-> <<>>]
NilChain == [Parent |-> <<>>, Operations |-> NilSlice, Edges |-> NilSlice]

\* the elements s[0:len(s)]
Elems(arrays, s) ==
    IF s.arr = 0 THEN <<>> ELSE SubSeq(arrays[s.arr], 1, s.len)

\* the capacity append allocates when the slice is full
GrowCap(cap) == IF cap = 0 THEN 1 ELSE 2 * cap

\* append(s, x): in place when len < cap, else into a new backing array
AppendSlice(arrays, s, x, zero) ==
    IF s.len < s.cap
    THEN [arrays |-> [arrays EXCEPT ![s.arr][s.len + 1] = x],
          s |-> [s EXCEPT !.len = s.len + 1]]
    ELSE LET newcap == GrowCap(s.cap)
             newarr == Elems(arrays, s) \o <<x>>
                       \o [i \in 1..(newcap - s.len - 1) |-> zero]
         IN [arrays |-> Append(arrays, newarr),
             s |-> [arr |-> Len(arrays) + 1, len |-> s.len + 1, cap |-> newcap]]

\* s[0:0]: a nil slice stays nil, another keeps its array and capacity
Reslice00(s) == IF s.arr = 0 THEN s ELSE [s EXCEPT !.len = 0]

(***************************************************************************)
(* Values and the AST.                                                     *)
(***************************************************************************)
Value(t, v) == [Type |-> t, Value |-> v]
ZeroValue == [Type |-> "TInvalid", Value |-> 0]

Identifier(name) == [node |-> "Identifier", Name |-> name]
StringLiteral(s) == [node |-> "StringLiteral", Value |-> s]
IntegerLiteral(s) == [node |-> "IntegerLiteral", Value |-> s]
RegexpLiteral(s) == [node |-> "RegexpLiteral", Value |-> s]
CallExpression(callee, args) ==
    [node |-> "CallExpression", Callee |-> callee, Arguments |-> args]
MemberExpression(obj, prop) ==
    [node |-> "MemberExpression", Object |-> obj, Property |-> prop]
Property(key, value) == [Key |-> key, Value |-> value]
ObjectExpression(props) == [node |-> "ObjectExpression", Properties |-> props]
ArrayExpression(els) == [node |-> "ArrayExpression", Elements |-> els]
ArrowFunctionExpression(params, body) ==
    [node |-> "ArrowFunctionExpression", Params |-> params, Body |-> body]
BinaryExpression(op, l, r) ==
    [node |-> "BinaryExpression", Operator |-> op, Left |-> l, Right |-> r]
LogicalExpression(op, l, r) ==
    [node |-> "LogicalExpression", Operator |-> op, Left |-> l, Right |-> r]
VariableDeclaration(name, init) ==
    [node |-> "VariableDeclaration", ID |-> name, Init |-> init]
ExpressionStatement(e) == [node |-> "ExpressionStatement", Expression |-> e]

(***************************************************************************)
(* Arguments.                                                              *)
(***************************************************************************)
EmptyMap == [k \in {} |-> ZeroValue]

newArguments(params) == [params |-> params, used |-> {}]

\* a bug get could have: the name is marked as used only when its value is
\* returned
getMarkOnSuccess(a, name, typ, required) ==
    IF name \notin DOMAIN a.params
    THEN [a |-> a, v |-> ZeroValue, ok |-> FALSE,
          err |-> IF required THEN "missing required keyword argument"
                  ELSE NoErr]
    ELSE IF a.params[name].Type # typ
    THEN [a |-> a, v |-> ZeroValue, ok |-> TRUE,
          err |-> "keyword argument should be of type"]
    ELSE [a |-> [a EXCEPT !.used = a.used \cup {name}], v |-> a.params[name],
          ok |-> TRUE, err |-> NoErr]

\* arguments.get marks the name as used before it looks at the value
get(a, name, typ, required) ==
    LET a1 == [a EXCEPT !.used = a.used \cup {name}]
    IN IF name \notin DOMAIN a.params
       THEN [a |-> a1, v |-> ZeroValue, ok |-> FALSE,
             err |-> IF required THEN "missing required keyword argument"
                     ELSE NoErr]
       ELSE IF a.params[name].Type # typ
       THEN [a |-> a1, v |-> ZeroValue, ok |-> TRUE,
             err |-> "keyword argument should be of type"]
       ELSE [a |-> a1, v |-> a.params[name], ok |-> TRUE, err |-> NoErr]

\* GetArray / GetRequiredArray: get, then the element type
GetArray(a, name, t, required) ==
    LET elements(r) ==
            IF r.err # NoErr \/ ~r.ok THEN r
            ELSE IF r.v.Value.Type # t
            THEN [r EXCEPT !.v = ZeroValue,
                           !.err = "keyword argument should be of an array of type"]
            ELSE r
    IN elements(get(a, name, "TArray", required))

listUnused(a) == {k \in DOMAIN a.params : k \notin a.used}

(***************************************************************************)
(* The context handed to a constructor.                                    *)
(***************************************************************************)
LookupIDFromIdentifier(st, ident) ==
    IF ident \notin DOMAIN st.scope
    THEN [id |-> <<>>, err |-> "unknown identifier"]
    ELSE IF st.scope[ident].Type # "TChain"
    THEN [id |-> <<>>, err |-> "identifier not a function chain"]
    ELSE [id |-> st.chains[st.scope[ident].Value].Parent, err |-> NoErr]

AdditionalParent(parents, p) ==
    IF \E i \in 1..Len(parents) : parents[i] = p THEN parents
    ELSE Append(parents, p)

(***************************************************************************)
(* Constructors (CreateOperationSpec) are registered by other packages.    *)
(* One is modelled by the accessor calls it makes: each step reads one     *)
(* keyword, returns or ignores the accessor's error, and may look the      *)
(* string it read up as an identifier and declare it a parent.             *)
(***************************************************************************)
Step(name, typ, elem, required, onErr, parent) ==
    [name |-> name, typ |-> typ, elem |-> elem, required |-> required,
     onErr |-> onErr, parent |-> parent]

NilCtor == [nil |-> TRUE, steps |-> <<>>]
Ctor(steps) == [nil |-> FALSE, steps |-> steps]

\* reads no keyword
ctorPlain == Ctor(<<>>)
\* like select/from: an optional string
ctorFrom == Ctor(<<Step("db", "TString", "", FALSE, "return", FALSE)>>)
\* reads an integer and goes on with its default when the accessor fails
ctorLenient == Ctor(<<Step("n", "TInt", "", FALSE, "ignore", FALSE)>>)
\* like limit: a required integer
ctorLimit == Ctor(<<Step("n", "TInt", "", TRUE, "return", FALSE)>>)
\* like join: an optional array of chains, and an optional table named by
\* its identifier, which becomes an additional parent
ctorJoin == Ctor(<<Step("tables", "TArray", "TChain", FALSE, "return", FALSE),
                   Step("parent", "TString", "", FALSE, "return", TRUE)>>)

RECURSIVE RunCtor(_, _, _, _, _, _)
\* createOpSpec(arguments, ctx): the accessor calls from step i on
RunCtor(steps, i, a, parents, asked, st) ==
    IF i > Len(steps)
    THEN [a |-> a, parents |-> parents, asked |-> asked, err |-> NoErr]
    ELSE LET s == steps[i]
             asked1 == asked \cup {s.name}
             looked(r, l) ==
                 IF l.err # NoErr
                 THEN [a |-> r.a, parents |-> parents, asked |-> asked1,
                       err |-> l.err]
                 ELSE RunCtor(steps, i + 1, r.a,
                              AdditionalParent(parents, l.id), asked1, st)
             read(r) ==
                 IF r.err # NoErr /\ s.onErr = "return"
                 THEN [a |-> r.a, parents |-> parents, asked |-> asked1,
                       err |-> r.err]
                 ELSE IF s.parent /\ r.ok /\ r.err = NoErr
                 THEN looked(r, LookupIDFromIdentifier(st, r.v.Value))
                 ELSE RunCtor(steps, i + 1, r.a, parents, asked1, st)
         IN IF s.typ = "TArray"
            THEN read(GetArray(a, s.name, s.elem, s.required))
            ELSE read(get(a, s.name, s.typ, s.required))

(***************************************************************************)
(* The evaluator. The operators below thread the evaluator and its heap as *)
(* a record st and return it with the error (NoErr for nil, Panic for a    *)
(* run-time panic) and their results.                                      *)
(***************************************************************************)
MapPut(m, k, v) == [x \in DOMAIN m \cup {k} |-> IF x = k THEN v ELSE m[x]]

\* chain.Edges = append(chain.Edges, Edge{p, child}) for the parents from i
\* on, skipping the parent `skip` (none when skip = <<>>)
RECURSIVE AppendParents(_, _, _, _, _, _)
AppendParents(arrays, s, parents, i, child, skip) ==
    IF i > Len(parents) THEN [arrays |-> arrays, s |-> s]
    ELSE IF parents[i] = skip
    THEN AppendParents(arrays, s, parents, i + 1, child, skip)
    ELSE LET rest(r) == AppendParents(r.arrays, r.s, parents, i + 1, child, skip)
         IN rest(AppendSlice(arrays, s, [Parent |-> parents[i], Child |-> child],
                             NilEdge))

RECURSIVE doExpression(_, _)
RECURSIVE doArray(_, _, _, _, _)
RECURSIVE callFunction(_, _, _)
RECURSIVE memberFunction(_, _, _)
RECURSIVE createOp(_, _, _, _)
RECURSIVE resolveParameters(_, _, _, _)
RECURSIVE primaryNode(_)

\* one iteration of the loop of resolveParameters, from property i on
resolveParameters(st, props, i, paramsMap) ==
    IF i > Len(props) THEN [st |-> st, err |-> NoErr, paramsMap |-> paramsMap]
    ELSE LET put(r) ==
                 IF r.err # NoErr
                 THEN [st |-> r.st, err |-> r.err, paramsMap |-> EmptyMap]
                 ELSE IF props[i].Key \in DOMAIN paramsMap
                 THEN [st |-> r.st,
                       err |-> "duplicate keyword parameter specified",
                       paramsMap |-> EmptyMap]
                 ELSE resolveParameters(r.st, props, i + 1,
                                        MapPut(paramsMap, props[i].Key, r.v))
         IN put(doExpression(st, props[i].Value))

\* the log entry of one createOp call
CallRecord(n, name, supplied, asked, ran, ctorErr, err) ==
    [n |-> n, name |-> name, supplied |-> supplied, asked |-> asked,
     ran |-> ran, ctorErr |-> ctorErr, err |-> err]

createOp(st, name, createOpSpec, args) ==
    LET n == st.id                                   \* ev.nextID()
        st1 == [st EXCEPT !.id = st.id + 1]
        op == [ID |-> Sprintf(name, n), n |-> n, kind |-> name]
        fail(s, e, rec) ==
            [st |-> [s EXCEPT !.calls = Append(s.calls, rec)], err |-> e,
             op |-> NilOp, parents |-> <<>>]
        rec(paramMap, c, e) ==
            CallRecord(n, name, DOMAIN paramMap, c.asked, TRUE, c.err, e)
        constructed(s, paramMap, c) ==
            IF c.err # NoErr THEN fail(s, c.err, rec(paramMap, c, c.err))
            ELSE IF listUnused(c.a) # {}
            THEN fail(s, "extra arguments provided",
                      rec(paramMap, c, "extra arguments provided"))
            ELSE [st |-> [s EXCEPT
                              !.calls = Append(s.calls, rec(paramMap, c, NoErr)),
                              !.created = Append(s.created, op)],
                  err |-> NoErr, op |-> op, parents |-> c.parents]
        construct(s, paramMap) ==
            IF createOpSpec.nil
            THEN fail(s, Panic, CallRecord(n, name, DOMAIN paramMap, {}, FALSE,
                                           NoErr, Panic))
            ELSE constructed(s, paramMap,
                             RunCtor(createOpSpec.steps, 1,
                                     newArguments(paramMap), <<>>, {}, s))
        resolved(r) ==
            IF r.err # NoErr
            THEN fail(r.st, r.err,
                      CallRecord(n, name, {}, {}, FALSE, NoErr, r.err))
            ELSE construct(r.st, r.paramsMap)
    IN IF Len(args) = 1
       THEN IF args[1].node # "ObjectExpression"
            THEN fail(st1, "arguments not a valid object expression",
                      CallRecord(n, name, {}, {}, FALSE, NoErr,
                                 "arguments not a valid object expression"))
            ELSE resolved(resolveParameters(st1, args[1].Properties, 1, EmptyMap))
       ELSE construct(st1, EmptyMap)

\* evaluator.function and evaluator.method: the registry, then createOp
lookupAndCreate(st, registry, unknown, name, args) ==
    IF name \notin DOMAIN registry
    THEN [st |-> st, err |-> unknown, op |-> NilOp, parents |-> <<>>]
    ELSE createOp(st, name, registry[name], args)

function(st, name, args) ==
    lookupAndCreate(st, st.functionsMap, "unknown function", name, args)

method(st, name, args) ==
    lookupAndCreate(st, st.methodMap, "unknown method", name, args)

\* the log entry of one successful callFunction
\* (base: the variable the chain was copied from just before this call, and
\* the tail of the chain stored under it; <<>> when there was no copy)
LinkRecord(kind, chain, op, parents, before, after, s0, s1, base) ==
    [kind |-> kind, chain |-> chain, op |-> op, parents |-> parents,
     base |-> base,
     baseTail |-> IF base = <<>> THEN <<>>
                  ELSE s0.chains[s0.scope[base].Value].Parent,
     parentBefore |-> before.Parent, parentAfter |-> after.Parent,
     opsBefore |-> Elems(s0.opArrays, before.Operations),
     opsAfter |-> Elems(s1.opArrays, after.Operations),
     edgesBefore |-> Elems(s0.edgeArrays, before.Edges),
     edgesAfter |-> Elems(s1.edgeArrays, after.Edges)]

\* the tail of callFunction's MemberExpression case, with the chain's tail
\* set to `tail` at its end
updateChainTo(st, chain, op, parents, base, tail) ==
    LET c == st.chains[chain]
        logged(c1, s1) ==
            [s1 EXCEPT !.links =
                 Append(st.links, LinkRecord("method", chain, op, parents, c, c1,
                                             st, s1, base))]
        stored(o, e2, c1) ==
            logged(c1, [st EXCEPT !.chains[chain] = c1, !.opArrays = o.arrays,
                                  !.edgeArrays = e2.arrays])
        linked(o, e2) ==
            stored(o, e2, [Parent |-> tail, Operations |-> o.s, Edges |-> e2.s])
        edged(o, e) ==
            linked(o, AppendParents(e.arrays, e.s, parents, 1, op.ID, c.Parent))
        appended(o) ==
            edged(o, AppendSlice(st.edgeArrays, c.Edges,
                                 [Parent |-> c.Parent, Child |-> op.ID], NilEdge))
    IN appended(AppendSlice(st.opArrays, c.Operations, op, NilOp))

\* a bug updateChain could have: the tail is not advanced
updateChainKeepTail(st, chain, op, parents, base) ==
    updateChainTo(st, chain, op, parents, base, st.chains[chain].Parent)

\* the tail of callFunction's MemberExpression case: chain is updated
updateChain(st, chain, op, parents, base) ==
    updateChainTo(st, chain, op, parents, base, op.ID)

\* callFunction's Identifier case: a chain anchored on the new operation
newChain(st, op, parents) ==
    LET chain == Len(st.chains) + 1
        logged(c1, s1) ==
            [st |-> [s1 EXCEPT !.links =
                         Append(st.links,
                                LinkRecord("function", chain, op, parents,
                                           NilChain, c1, st, s1, <<>>))],
             chain |-> chain]
        stored(e, c1) ==
            logged(c1, [st EXCEPT !.chains = Append(st.chains, c1),
                                  !.opArrays = Append(st.opArrays, <<op>>),
                                  !.edgeArrays = e.arrays])
        edged(e) ==
            stored(e, [Parent |-> op.ID,
                       Operations |-> [arr |-> Len(st.opArrays) + 1, len |-> 1,
                                       cap |-> 1],
                       Edges |-> e.s])
    IN edged(AppendParents(st.edgeArrays, NilSlice, parents, 1, op.ID, <<>>))

\* a bug derive could have: the chain stored in the scope is used itself
deriveAlias(st, stored, chain) == [st |-> st, chain |-> stored]

\* memberFunction's copy of the chain stored in the scope:
\*   if chain == nil { chain = new(CallChain) }; *chain = *stored
derive(st, stored, chain) ==
    IF chain = 0
    THEN [st |-> [st EXCEPT !.chains = Append(st.chains, st.chains[stored])],
          chain |-> Len(st.chains) + 1]
    ELSE [st |-> [st EXCEPT !.chains[chain] = st.chains[stored]],
          chain |-> chain]

callFunction(st, call, chain) ==
    LET callee == call.Callee
        made(c) == [st |-> c.st, err |-> NoErr, chain |-> c.chain]
        started(r) ==
            IF r.err # NoErr THEN [st |-> r.st, err |-> r.err, chain |-> 0]
            ELSE made(newChain(r.st, r.op, r.parents))
        extended(m, r) ==
            IF r.err # NoErr THEN [st |-> r.st, err |-> r.err, chain |-> 0]
            ELSE [st |-> updateChain(r.st, m.chain, r.op, r.parents, m.base),
                  err |-> NoErr, chain |-> m.chain]
        member(m) ==
            IF m.err # NoErr THEN [st |-> m.st, err |-> m.err, chain |-> 0]
            ELSE extended(m, method(m.st, m.name, call.Arguments))
    IN CASE callee.node = "Identifier" ->
              started(function(st, callee.Name, call.Arguments))
         [] callee.node = "MemberExpression" ->
              member(memberFunction(st, callee, chain))
         [] OTHER -> [st |-> st, err |-> "Unsupported callee expression type",
                      chain |-> 0]

memberFunction(st, member, chain) ==
    LET obj == member.Object
        failed(s, e) ==
            [st |-> s, err |-> e, chain |-> 0, name |-> <<>>, base |-> <<>>]
        \* property := member.Property.(*ast.Identifier)
        property(s, c, base) ==
            IF member.Property.node # "Identifier" THEN failed(s, Panic)
            ELSE [st |-> s, err |-> NoErr, chain |-> c,
                  name |-> member.Property.Name, base |-> base]
        called(r) ==
            IF r.err # NoErr THEN failed(r.st, r.err)
            ELSE property(r.st, r.chain, <<>>)
        derived(d) == property(d.st, d.chain, obj.Name)
    IN CASE obj.node = "CallExpression" -> called(callFunction(st, obj, chain))
         [] obj.node = "Identifier" ->
              IF obj.Name \notin DOMAIN st.scope
              THEN failed(st, "undefined identifier")
              ELSE IF st.scope[obj.Name].Type # "TChain"
              THEN failed(st, "variable is not a function chain")
              ELSE derived(derive(st, st.scope[obj.Name].Value, chain))
         [] OTHER -> failed(st, "unsupported member expression object type")

(***************************************************************************)
(* Expression trees.                                                       *)
(***************************************************************************)
expressionOperator(op, isRegexp) ==
    CASE op = "==" ->
           [op |-> IF isRegexp THEN "RegexpMatchOperator" ELSE "EqualOperator",
            err |-> NoErr]
      [] op = "!=" ->
           [op |-> IF isRegexp THEN "RegexpNotMatchOperator"
                   ELSE "NotEqualOperator",
            err |-> NoErr]
      [] op = "startswith" -> [op |-> "StartsWithOperator", err |-> NoErr]
      [] op = "*" -> [op |-> "MultiplicationOperator", err |-> NoErr]
      [] op = "/" -> [op |-> "DivisionOperator", err |-> NoErr]
      [] op = "+" -> [op |-> "AdditionOperator", err |-> NoErr]
      [] op = "-" -> [op |-> "SubtractionOperator", err |-> NoErr]
      [] op = "<=" -> [op |-> "LessThanEqualOperator", err |-> NoErr]
      [] op = "<" -> [op |-> "LessThanOperator", err |-> NoErr]
      [] op = ">=" -> [op |-> "GreaterThanEqualOperator", err |-> NoErr]
      [] op = ">" -> [op |-> "GreaterThanOperator", err |-> NoErr]
      [] op = "in" -> [op |-> "InOperator", err |-> NoErr]
      [] op = "empty" -> [op |-> "NotEmptyOperator", err |-> NoErr]
      [] OTHER -> [op |-> "", err |-> "unknown operator"]

logicalOperator(op) ==
    CASE op = "and" -> [op |-> "AndOperator", err |-> NoErr]
      [] op = "or" -> [op |-> "OrOperator", err |-> NoErr]
      [] OTHER -> [op |-> "", err |-> "unknown logical operator"]

NilNode == [type |-> "nil"]
BinaryNode(op, l, r) ==
    [type |-> "binary", Operator |-> op, Left |-> l, Right |-> r]

propertyName(m) ==
    CASE m.Property.node = "Identifier" ->
           [name |-> m.Property.Name, err |-> NoErr]
      [] m.Property.node = "StringLiteral" ->
           [name |-> m.Property.Value, err |-> NoErr]
      [] OTHER -> [name |-> <<>>, err |-> "unsupported property expression"]

\* a bug isRegexp could have: only the left operand is looked at
isRegexpLeftOnly(lhs, rhs) == lhs.type = "regexpLiteral"

\* isRegexp := lhs.Type() == RegexpLiteral || rhs.Type() == RegexpLiteral
isRegexp(lhs, rhs) == lhs.type = "regexpLiteral" \/ rhs.type = "regexpLiteral"

binaryExpression(expr) ==
    LET node(lhs, rhs, op) ==
            IF op.err # NoErr THEN [node |-> NilNode, err |-> op.err]
            ELSE [node |-> BinaryNode(op.op, lhs.node, rhs.node), err |-> NoErr]
        right(lhs, rhs) ==
            IF rhs.err # NoErr THEN rhs
            ELSE node(lhs, rhs,
                      expressionOperator(expr.Operator,
                                         isRegexp(lhs.node, rhs.node)))
        left(lhs) ==
            IF lhs.err # NoErr THEN lhs
            ELSE right(lhs, primaryNode(expr.Right))
    IN left(primaryNode(expr.Left))

primaryNode(expr) ==
    LET named(o, p) ==
            IF p.err # NoErr THEN [node |-> NilNode, err |-> p.err]
            ELSE [node |-> [type |-> "memberReference", Object |-> o.node,
                            Property |-> p.name],
                  err |-> NoErr]
        object(o) == IF o.err # NoErr THEN o ELSE named(o, propertyName(expr))
    IN CASE expr.node = "BinaryExpression" -> binaryExpression(expr)
         [] expr.node = "StringLiteral" ->
              [node |-> [type |-> "stringLiteral", Value |-> expr.Value],
               err |-> NoErr]
         [] expr.node = "IntegerLiteral" ->
              [node |-> [type |-> "integerLiteral", Value |-> expr.Value],
               err |-> NoErr]
         [] expr.node = "RegexpLiteral" ->
              [node |-> [type |-> "regexpLiteral", Value |-> expr.Value],
               err |-> NoErr]
         [] expr.node = "Identifier" ->
              [node |-> [type |-> "reference", Name |-> expr.Name],
               err |-> NoErr]
         [] expr.node = "MemberExpression" -> object(primaryNode(expr.Object))
         [] OTHER -> [node |-> NilNode, err |-> "unknown primary type"]

binaryOperation(expr) ==
    CASE expr.node = "BinaryExpression" -> binaryExpression(expr)
      [] OTHER ->
           [node |-> NilNode,
            err |-> "Expression type expected to be arithmatic, relational or logical"]

RECURSIVE logicalExpression(_)
logicalExpression(expr) ==
    LET operand(e) == IF e.node = "LogicalExpression" THEN logicalExpression(e)
                      ELSE binaryOperation(e)
        node(lhs, rhs, op) ==
            IF op.err # NoErr THEN [node |-> NilNode, err |-> op.err]
            ELSE [node |-> BinaryNode(op.op, lhs.node, rhs.node), err |-> NoErr]
        right(lhs, rhs) ==
            IF rhs.err # NoErr THEN rhs
            ELSE node(lhs, rhs, logicalOperator(expr.Operator))
        left(lhs) ==
            IF lhs.err # NoErr THEN lhs ELSE right(lhs, operand(expr.Right))
    IN left(operand(expr.Left))

Expression(root, params) == [Root |-> root, Params |-> params]

doLiteral(st, lit) ==
    CASE lit.node = "StringLiteral" ->
           [st |-> st, err |-> NoErr, v |-> Value("TString", lit.Value)]
      [] lit.node = "IntegerLiteral" ->
           [st |-> st, err |-> NoErr, v |-> Value("TInt", lit.Value)]
      [] OTHER -> [st |-> st, err |-> "unknown literal type", v |-> ZeroValue]

IsLiteral(e) == e.node \in {"StringLiteral", "IntegerLiteral", "RegexpLiteral"}

\* the loop of doArray from element i on, then its switch on array.Type
doArray(st, els, i, arrayType, elements) ==
    IF i > Len(els)
    THEN IF arrayType = "TInvalid"
         THEN [st |-> st, err |-> "cannot define an array with elements of type",
               v |-> ZeroValue]
         ELSE [st |-> st, err |-> NoErr,
               v |-> Value("TArray", [Type |-> arrayType,
                                      Elements |-> elements])]
    ELSE LET typed(r, t) ==
                 IF t # r.v.Type
                 THEN [st |-> r.st, err |-> "cannot mix types in an array",
                       v |-> ZeroValue]
                 ELSE doArray(r.st, els, i + 1, t, Append(elements, r.v.Value))
             element(r) ==
                 IF r.err # NoErr
                 THEN [st |-> r.st, err |-> r.err, v |-> ZeroValue]
                 ELSE typed(r, IF arrayType = "TInvalid" THEN r.v.Type
                               ELSE arrayType)
         IN element(doExpression(st, els[i]))

doExpression(st, expr) ==
    LET tree(r) == IF r.err # NoErr THEN [st |-> st, err |-> r.err, v |-> ZeroValue]
                   ELSE [st |-> st, err |-> NoErr,
                         v |-> Value("TExpression", Expression(r.node, <<>>))]
        called(r) ==
            IF r.err # NoErr THEN [st |-> r.st, err |-> r.err, v |-> ZeroValue]
            ELSE [st |-> r.st, err |-> NoErr, v |-> Value("TChain", r.chain)]
        arrow(r) ==
            IF r.err # NoErr THEN [st |-> r.st, err |-> r.err, v |-> ZeroValue]
            \* expr := v.Value.(expression.Expression)
            ELSE IF r.v.Type # "TExpression"
            THEN [st |-> r.st, err |-> Panic, v |-> ZeroValue]
            ELSE [st |-> r.st, err |-> NoErr,
                  v |-> Value("TExpression",
                              Expression(r.v.Value.Root, expr.Params))]
    IN CASE IsLiteral(expr) -> doLiteral(st, expr)
         [] expr.node = "Identifier" ->
              IF expr.Name \notin DOMAIN st.scope
              THEN [st |-> st, err |-> "undefined identifier", v |-> ZeroValue]
              ELSE [st |-> st, err |-> NoErr, v |-> st.scope[expr.Name]]
         [] expr.node = "CallExpression" -> called(callFunction(st, expr, 0))
         [] expr.node = "BinaryExpression" -> tree(binaryExpression(expr))
         [] expr.node = "LogicalExpression" -> tree(logicalExpression(expr))
         [] expr.node = "ArrowFunctionExpression" ->
              arrow(doExpression(st, expr.Body))
         [] expr.node = "ArrayExpression" ->
              doArray(st, expr.Elements, 1, "TInvalid", <<>>)
         [] OTHER -> [st |-> st, err |-> "unsupported expression", v |-> ZeroValue]

addChain(st, chain) ==
    LET c == st.chains[chain]
    IN [st EXCEPT
           !.operations = st.operations \o Elems(st.opArrays, c.Operations),
           !.edges = st.edges \o Elems(st.edgeArrays, c.Edges),
           !.chains[chain] = [c EXCEPT !.Operations = Reslice00(c.Operations),
                                       !.Edges = Reslice00(c.Edges)]]

doVariableDeclaration(st, decl) ==
    LET set(r, s1) ==
            IF r.v.Type = "TChain"
            THEN [st |-> addChain(s1, r.v.Value), err |-> NoErr]
            ELSE [st |-> s1, err |-> NoErr]
        value(r) ==
            IF r.err # NoErr THEN [st |-> r.st, err |-> r.err]
            ELSE set(r, [r.st EXCEPT !.scope = MapPut(r.st.scope, decl.ID, r.v)])
    IN value(doExpression(st, decl.Init))

\* one iteration of the loop of evaluator.eval
eval(st, stmt) ==
    LET value(r) ==
            IF r.err # NoErr THEN [st |-> r.st, err |-> r.err]
            ELSE IF r.v.Type = "TChain"
            THEN [st |-> addChain(r.st, r.v.Value), err |-> NoErr]
            ELSE [st |-> r.st, err |-> NoErr]
    IN CASE stmt.node = "VariableDeclaration" -> doVariableDeclaration(st, stmt)
         [] stmt.node = "ExpressionStatement" ->
              value(doExpression(st, stmt.Expression))
         [] OTHER -> [st |-> st, err |-> "unsupported program statement"]

spec(st) == [nil |-> FALSE, Operations |-> st.operations, Edges |-> st.edges]
NilSpec == [nil |-> TRUE, Operations |-> <<>>, Edges |-> <<>>]

\* what Evaluate does with the error of ev.eval; a panic unwinds through it
Evaluate(st, err) ==
    IF err = Panic THEN [kind |-> "panicked", spec |-> NilSpec, err |-> Panic]
    ELSE IF err # NoErr THEN [kind |-> "returned", spec |-> NilSpec, err |-> err]
    ELSE [kind |-> "returned", spec |-> spec(st), err |-> NoErr]

Running == [kind |-> "running", spec |-> NilSpec, err |-> NoErr]

\* no plan is being made
NoPlan == [phase |-> "none"]

\* no filter transformation and no storage read in this run
NoFilter == [phase |-> "none"]
NoStorage == [phase |-> "none"]
NoSelector == [phase |-> "none"]
ExecIdle == filter = NoFilter /\ storage = NoStorage /\ selector = NoSelector

(***************************************************************************)
(* The state machine of one evaluation: the program is drawn one statement *)
(* at a time, Return is the end of the program.                            *)
(***************************************************************************)
State ==
    [functionsMap |-> functionsMap, methodMap |-> methodMap, id |-> id,
     scope |-> scope, operations |-> operations, edges |-> edges,
     chains |-> chains, opArrays |-> opArrays, edgeArrays |-> edgeArrays,
     created |-> created, calls |-> calls, links |-> links]

EvalInit ==
    /\ id = 0
    /\ scope = EmptyMap
    /\ operations = <<>>
    /\ edges = <<>>
    /\ chains = <<>>
    /\ opArrays = <<>>
    /\ edgeArrays = <<>>
    /\ created = <<>>
    /\ calls = <<>>
    /\ links = <<>>
    /\ lastStmt = [node |-> "none"]
    /\ nstmts = 0
    /\ result = Running

Step1(stmt) ==
    LET done(r) ==
            /\ id' = r.st.id
            /\ scope' = r.st.scope
            /\ operations' = r.st.operations
            /\ edges' = r.st.edges
            /\ chains' = r.st.chains
            /\ opArrays' = r.st.opArrays
            /\ edgeArrays' = r.st.edgeArrays
            /\ created' = r.st.created
            /\ calls' = r.st.calls
            /\ links' = r.st.links
            /\ lastStmt' = stmt
            /\ nstmts' = nstmts + 1
            /\ result' = IF r.err # NoErr THEN Evaluate(r.st, r.err) ELSE Running
            /\ UNCHANGED <<regVars, plan, execVars>>
    IN done(eval(State, stmt))

\* the program's next statement is a declaration out of S
DoVariableDeclaration(S, max) ==
    /\ result.kind = "running"
    /\ nstmts < max
    /\ \E stmt \in S : Step1(stmt)

\* the program's next statement is an expression statement out of S
DoExpressionStatement(S, max) ==
    /\ result.kind = "running"
    /\ nstmts < max
    /\ \E e \in S : Step1(ExpressionStatement(e))

\* the program has no further statement: Evaluate returns ev.spec()
Return ==
    /\ result.kind = "running"
    /\ result' = Evaluate(State, NoErr)
    /\ UNCHANGED <<regVars, plan, execVars, id, scope, operations, edges,
                   chains, opArrays, edgeArrays, created, calls, links,
                   lastStmt, nstmts>>

(***************************************************************************)
(* The programs of Spec: chains started by f(), extended from the          *)
(* variables a and b, assigned, used as statements and put in arrays.      *)
(***************************************************************************)
varA == <<"a">>
varB == <<"b">>
fnF == <<"f">>
fnF1 == <<"f", "1">>
mG == <<"g">>
mH == <<"h">>
mJ == <<"j">>
mK == <<"k">>
unknownU == <<"u">>

Vars == {varA, varB}

Call(name, args) == CallExpression(Identifier(name), args)
MethodCall(obj, name, args) ==
    CallExpression(MemberExpression(obj, Identifier(name)), args)
Object1(key, value) == <<ObjectExpression(<<Property(key, value)>>)>>

RECURSIVE Chain(_, _)
\* base.m1(args1). ... .mk(argsk)
Chain(base, ms) ==
    IF ms = <<>> THEN base
    ELSE MethodCall(Chain(base, SubSeq(ms, 1, Len(ms) - 1)),
                    ms[Len(ms)].name, ms[Len(ms)].args)

M(name, args) == [name |-> name, args |-> args]

\* a join whose tables are given as an array of chains derived from a
JoinTables == Object1("tables", ArrayExpression(<<MethodCall(Identifier(varA), mH, <<>>)>>))

\* a join with the chain stored under a as an additional parent
JoinParent == Object1("parent", StringLiteral(varA))

MethodCalls == {M(mG, <<>>), M(mJ, JoinTables), M(mJ, JoinParent)}
Bases == {Call(fnF, <<>>)} \cup {Identifier(v) : v \in Vars}

\* up to MaxMethods member calls: g() each, the last one possibly a join
MethodSeqs ==
    UNION {{[i \in 1..k |-> IF i = k THEN m ELSE M(mG, <<>>)] : m \in MethodCalls} :
               k \in 0..MaxMethods}

ChainExprs == {Chain(base, ms) : base \in Bases, ms \in MethodSeqs}

ArrayExprs ==
    {ArrayExpression(<<Call(fnF, <<>>)>>),
     ArrayExpression(<<MethodCall(Identifier(varA), mG, <<>>),
                       MethodCall(Identifier(varA), mH, <<>>)>>)}

Expressions == ChainExprs \cup ArrayExprs
\* what b is declared as: a new chain or a branch of a
BranchExprs ==
    {Call(fnF, <<>>), MethodCall(Identifier(varA), mG, <<>>),
     MethodCall(Identifier(varA), mH, <<>>)}

Declarations ==
    {VariableDeclaration(varA, e) : e \in Expressions}
        \cup {VariableDeclaration(varB, e) : e \in BranchExprs}

RegInit ==
    /\ functionsMap = (fnF :> ctorFrom)
    /\ methodMap = (mG :> ctorPlain) @@ (mH :> ctorLenient) @@ (mJ :> ctorJoin)
                   @@ (mK :> ctorLimit)
    /\ regPanic = FALSE
    /\ regLast = [registry |-> "none"]

Init == RegInit /\ EvalInit /\ plan = NoPlan /\ ExecIdle

Next ==
    \/ DoVariableDeclaration(Declarations, MaxStmts)
    \/ DoExpressionStatement(Expressions, MaxStmts)
    \/ Return

Spec == Init /\ [][Next]_vars

(***************************************************************************)
(* Vocabulary of the claims.                                               *)
(***************************************************************************)
Accepted == result.kind = "returned" /\ result.err = NoErr
Range(q) == {q[i] : i \in DOMAIN q}
Count(q, x) == Cardinality({i \in DOMAIN q : q[i] = x})

\* the edges a successful callFunction added to its chain
NewEdges(l) == SubSeq(l.edgesAfter, Len(l.edgesBefore) + 1, Len(l.edgesAfter))
CreatedEdges == UNION {Range(NewEdges(links[i])) : i \in DOMAIN links}

RECURSIVE Acyclic(_, _)
\* no cycle among the nodes N: sources can be removed until none is left
Acyclic(N, E) ==
    IF N = {} THEN TRUE
    ELSE LET src == {n \in N : ~\E e \in E : e.Child = n /\ e.Parent \in N}
         IN src # {} /\ Acyclic(N \ src, E)

\* C1: in the QuerySpec of an accepted program every operation created
\* during the evaluation occurs exactly once in operations, and every edge
\* created occurs exactly once in edges.
C1_DrainedExactlyOnce ==
    Accepted =>
        /\ \A i \in DOMAIN created :
               Count(result.spec.Operations, created[i]) = 1
        /\ \A e \in CreatedEdges : Count(result.spec.Edges, e) = 1

\* C5: in a returned QuerySpec both endpoints of every edge are ids of
\* operations of the spec, and the edges have no cycle.
C5_EdgesWellFormed ==
    Accepted =>
        LET ids == {o.ID : o \in Range(result.spec.Operations)}
            E == Range(result.spec.Edges)
        IN /\ \A e \in E : e.Parent \in ids /\ e.Child \in ids
           /\ Acyclic(ids, E)

StmtExpr(stmt) ==
    IF stmt.node = "VariableDeclaration" THEN stmt.Init ELSE stmt.Expression

\* the statement is v.m(args) for a variable v, assigned or not
IsExtension(stmt) ==
    /\ stmt.node \in {"VariableDeclaration", "ExpressionStatement"}
    /\ StmtExpr(stmt).node = "CallExpression"
    /\ StmtExpr(stmt).Callee.node = "MemberExpression"
    /\ StmtExpr(stmt).Callee.Object.node = "Identifier"

ExtendedVar(stmt) == StmtExpr(stmt).Callee.Object.Name

TailOf(v) == chains[scope[v].Value].Parent

\* C2: every member call on a variable makes the new operation a child of
\* the tail of the chain stored under that variable (and of the declared
\* additional parents, of nothing else), the statement v.m() emits that
\* edge, and no statement changes the tail of a chain stored in the scope.
C2_ExtensionsBranch ==
    [][/\ \A v \in DOMAIN scope :
              scope[v].Type = "TChain" =>
                  chains'[scope[v].Value].Parent = chains[scope[v].Value].Parent
       /\ \A i \in DOMAIN links' :
              LET l == links'[i]
              IN l.base # <<>> =>
                     /\ [Parent |-> l.baseTail, Child |-> l.op.ID]
                            \in Range(NewEdges(l))
                     /\ \A e \in Range(NewEdges(l)) :
                            /\ e.Child = l.op.ID
                            /\ e.Parent \in {l.baseTail} \cup Range(l.parents)
       /\ (IsExtension(lastStmt') /\ result'.kind = "running") =>
              [Parent |-> TailOf(ExtendedVar(lastStmt')),
               Child |-> links'[Len(links')].op.ID]
                  \in Range(SubSeq(edges', Len(edges) + 1, Len(edges')))
      ]_vars

\* a variable was extended twice: its tail has two children
C2_Witness ==
    /\ result.kind = "running"
    /\ IsExtension(lastStmt)
    /\ ExtendedVar(lastStmt) \in DOMAIN scope
    /\ scope[ExtendedVar(lastStmt)].Type = "TChain"
    /\ Cardinality({e \in Range(edges) :
                        e.Parent = TailOf(ExtendedVar(lastStmt))}) >= 2

LinkOK(l) ==
    /\ l.parentAfter = l.op.ID
    /\ l.kind = "function" => l.opsAfter = <<l.op>>
    /\ l.kind = "method" =>
           /\ l.opsAfter = l.opsBefore \o <<l.op>>
           /\ Len(l.edgesAfter) > Len(l.edgesBefore)
           /\ SubSeq(l.edgesAfter, 1, Len(l.edgesBefore)) = l.edgesBefore
           /\ NewEdges(l)[1] = [Parent |-> l.parentBefore, Child |-> l.op.ID]
           /\ \A n \in 2..Len(NewEdges(l)) :
                  /\ NewEdges(l)[n].Child = l.op.ID
                  /\ NewEdges(l)[n].Parent \in Range(l.parents) \ {l.parentBefore}

\* the method calls of Spec that take no argument
PlainMethods == {m \in MethodCalls : m.args = <<>>}
PlainSeqs == UNION {[1..n -> PlainMethods] : n \in 0..MaxMethods}

Op(name, n) == [ID |-> Sprintf(name, n), n |-> n, kind |-> name]

\* C3: a function call starts a chain that holds the new operation only,
\* with that operation as its tail; a member call appends the one new
\* operation, adds the edge from the previous tail to it and makes it the
\* tail; so f().m1()...mk() emits f, m1, .., mk and exactly the edges
\* f->m1, .., m(k-1)->mk.
C3_ChainGrowth ==
    [][/\ \A i \in DOMAIN links' : LinkOK(links'[i])
       /\ \A ms \in PlainSeqs :
              (/\ result'.kind = "running"
               /\ StmtExpr(lastStmt') = Chain(Call(fnF, <<>>), ms)) =>
                  /\ operations' = operations \o
                         <<Op(fnF, id)>> \o
                         [n \in 1..Len(ms) |-> Op(ms[n].name, id + n)]
                  /\ edges' = edges \o
                         [n \in 1..Len(ms) |->
                              [Parent |-> Sprintf(IF n = 1 THEN fnF
                                                  ELSE ms[n - 1].name,
                                                  id + n - 1),
                               Child |-> Sprintf(ms[n].name, id + n)]]
      ]_vars

\* f().g().g() was evaluated
C3_Witness ==
    /\ result.kind = "running"
    /\ lastStmt.node = "ExpressionStatement"
    /\ lastStmt.Expression = Chain(Call(fnF, <<>>), <<M(mG, <<>>), M(mG, <<>>)>>)
    /\ Len(links) >= 3

\* C4: the operations of a returned QuerySpec have pairwise different ids.
C4_UniqueIDs ==
    Accepted =>
        \A m, n \in DOMAIN result.spec.Operations :
            m # n => result.spec.Operations[m].ID # result.spec.Operations[n].ID

(***************************************************************************)
(* SpecIDs: long programs of calls of f and f1, a name that ends in a      *)
(* digit.                                                                  *)
(***************************************************************************)
LongExpressions == {Call(fnF, <<>>), Call(fnF1, <<>>)}

InitIDs ==
    /\ functionsMap = (fnF :> ctorFrom) @@ (fnF1 :> ctorFrom)
    /\ methodMap = (mG :> ctorPlain)
    /\ regPanic = FALSE
    /\ regLast = [registry |-> "none"]
    /\ EvalInit
    /\ plan = NoPlan
    /\ ExecIdle

NextIDs ==
    \/ DoExpressionStatement(LongExpressions, MaxLongStmts)
    \/ Return

SpecIDs == InitIDs /\ [][NextIDs]_vars

(***************************************************************************)
(* SpecArgs: calls with every small keyword list, and the statements that  *)
(* fail.                                                                   *)
(***************************************************************************)
StrS == StringLiteral(<<"s">>)
Int1 == IntegerLiteral(<<"1">>)
ArgKeys == {"db", "n", "x"}
ArgValues == {StrS, Int1}
PropSeqs ==
    UNION {[1..n -> {Property(key, v) : key \in ArgKeys, v \in ArgValues}] :
               n \in 0..MaxProps}
ArgLists ==
    {<<ObjectExpression(ps)>> : ps \in PropSeqs}
        \cup {<<>>, <<StrS>>, <<StrS, StrS>>}
ArgCalls ==
    {Call(fnF, al) : al \in ArgLists}
        \cup {MethodCall(Identifier(varA), m, al) :
                  m \in {mG, mH, mK}, al \in ArgLists}

RegexS == RegexpLiteral(<<"s">>)
RefR == Identifier(<<"r">>)

OtherExprs ==
    {Identifier(unknownU),
     Call(unknownU, <<>>),
     MethodCall(Identifier(varA), unknownU, <<>>),
     Call(fnF, Object1("db", Identifier(unknownU))),
     MemberExpression(Identifier(varA), Identifier(mG)),
     CallExpression(StrS, <<>>),
     CallExpression(MemberExpression(StrS, Identifier(mG)), <<>>),
     CallExpression(MemberExpression(Identifier(varA), StrS), <<>>),
     ArrowFunctionExpression(<<<<"r">>>>, BinaryExpression("==", RefR, StrS)),
     ArrowFunctionExpression(<<<<"r">>>>, StrS),
     ArrayExpression(<<>>),
     ArrayExpression(<<StrS, Int1>>),
     ArrayExpression(<<StrS, StrS>>),
     StrS}

ArgExpressions == ArgCalls \cup OtherExprs
ArgDeclarations == {VariableDeclaration(varA, e) : e \in ArgExpressions}

NextArgs ==
    \/ DoVariableDeclaration(ArgDeclarations, MaxArgStmts)
    \/ DoExpressionStatement(ArgExpressions, MaxArgStmts)
    \/ Return

SpecArgs == Init /\ [][NextArgs]_vars

\* C6: an evaluation that fails returns a nil QuerySpec and an error; it
\* does not panic.
C6_FailureIsReturned ==
    result.kind # "running" =>
        /\ result.kind = "returned"
        /\ result.err # NoErr => result.spec.nil

\* C7: createOp fails with "extra arguments" exactly when the constructor
\* ran without error and some supplied keyword was never asked for by an
\* accessor call, whatever the accessor returned; the operation of a failed
\* call is in no chain.
C7_ExtraArguments ==
    \A i \in DOMAIN calls :
        LET c == calls[i]
        IN /\ (c.err = "extra arguments provided") <=>
                  (c.ran /\ c.ctorErr = NoErr /\ c.supplied \ c.asked # {})
           /\ c.err = "extra arguments provided" =>
                  /\ \A n \in DOMAIN opArrays :
                         \A m \in DOMAIN opArrays[n] : opArrays[n][m].n # c.n
                  /\ \A n \in DOMAIN operations : operations[n].n # c.n
                  /\ \A n \in DOMAIN created : created[n].n # c.n

\* an accessor was called for a supplied keyword and failed, the
\* constructor went on, and another keyword was left unread
C7_Witness ==
    /\ result.kind = "returned"
    /\ result.err = "extra arguments provided"
    /\ calls[Len(calls)].supplied \cap calls[Len(calls)].asked # {}
    /\ Len(chains) > 0

(***************************************************************************)
(* SpecExpr: the lowering of binary expressions.                           *)
(***************************************************************************)
Operators ==
    {"==", "!=", "startswith", "*", "/", "+", "-", "<=", "<", ">=", ">",
     "in", "empty", "~"}
Operands ==
    {StrS, RegexS, MemberExpression(RefR, Identifier(<<"x">>)),
     BinaryExpression("==", RefR, RegexS)}
BinaryExprs ==
    {BinaryExpression(op, l, r) : op \in Operators, l \in Operands, r \in Operands}
ExprDeclarations == {VariableDeclaration(varA, e) : e \in BinaryExprs}

NextExpr ==
    \/ DoVariableDeclaration(ExprDeclarations, MaxExprStmts)
    \/ Return

SpecExpr == Init /\ [][NextExpr]_vars

\* C8: == and != are lowered to the regexp match and not-match operators
\* exactly when the left or the right operand is a regexp literal, and to
\* equal and not-equal otherwise; any other operator is lowered the same
\* way with and without a regexp literal operand.
C8_OperatorMapping ==
    (/\ result.kind = "running"
     /\ lastStmt.node = "VariableDeclaration"
     /\ lastStmt.Init.node = "BinaryExpression") =>
        LET e == lastStmt.Init
            regex == e.Left.node = "RegexpLiteral" \/ e.Right.node = "RegexpLiteral"
            got == scope[lastStmt.ID].Value.Root.Operator
        IN /\ e.Operator = "==" =>
                  got = IF regex THEN "RegexpMatchOperator" ELSE "EqualOperator"
           /\ e.Operator = "!=" =>
                  got = IF regex THEN "RegexpNotMatchOperator"
                        ELSE "NotEqualOperator"
           /\ e.Operator \notin {"==", "!="} =>
                  /\ got = expressionOperator(e.Operator, ~regex).op
                  /\ got \notin {"RegexpMatchOperator", "RegexpNotMatchOperator",
                                 "EqualOperator", "NotEqualOperator", ""}

\* x == /s/ with the regexp literal on the right was lowered
C8_Witness ==
    /\ result.kind = "running"
    /\ lastStmt.node = "VariableDeclaration"
    /\ lastStmt.Init.node = "BinaryExpression"
    /\ lastStmt.Init.Operator = "=="
    /\ lastStmt.Init.Left.node # "RegexpLiteral"
    /\ lastStmt.Init.Right.node = "RegexpLiteral"
    /\ scope[lastStmt.ID].Value.Root.Operator = "RegexpMatchOperator"

(***************************************************************************)
(* SpecRegister: the registries under sequences of Register* calls.  A     *)
(* panic is recorded and the next call is made by a caller that recovered. *)
(***************************************************************************)
\* functionsMap[name] != nil: a missing key reads as a nil constructor
Registered(map, name) == name \in DOMAIN map /\ ~map[name].nil

RegRecord(registry, name, c, n) ==
    [registry |-> registry, name |-> name, c |-> c, n |-> n]

RegCalls == IF regLast.registry = "none" THEN 0 ELSE regLast.n

RegisterFunction(name, c) ==
    /\ RegCalls < MaxRegs
    /\ regLast' = RegRecord("function", name, c, RegCalls + 1)
    /\ IF Registered(functionsMap, name)
       THEN regPanic' = TRUE /\ UNCHANGED functionsMap
       ELSE regPanic' = FALSE /\ functionsMap' = MapPut(functionsMap, name, c)
    /\ UNCHANGED <<methodMap, evVars, plan, execVars>>

RegisterMethod(name, c) ==
    /\ RegCalls < MaxRegs
    /\ regLast' = RegRecord("method", name, c, RegCalls + 1)
    /\ IF Registered(methodMap, name)
       THEN regPanic' = TRUE /\ UNCHANGED methodMap
       ELSE regPanic' = FALSE /\ methodMap' = MapPut(methodMap, name, c)
    /\ UNCHANGED <<functionsMap, evVars, plan, execVars>>

RegNames == {fnF, mG}
RegCtors == {NilCtor, ctorPlain, ctorFrom}

InitRegister ==
    /\ functionsMap = EmptyMap
    /\ methodMap = EmptyMap
    /\ regPanic = FALSE
    /\ regLast = [registry |-> "none"]
    /\ EvalInit
    /\ plan = NoPlan
    /\ ExecIdle

NextRegister ==
    \/ \E name \in RegNames, c \in RegCtors : RegisterFunction(name, c)
    \/ \E name \in RegNames, c \in RegCtors : RegisterMethod(name, c)

SpecRegister == InitRegister /\ [][NextRegister]_vars

\* C9: a Register* call with a name already registered in its registry
\* panics and leaves the registry as it was; a name of the other registry
\* does not count, and the other registry is never touched.
C9_DuplicatePanics ==
    [][/\ regLast'.registry = "function" =>
              /\ methodMap' = methodMap
              /\ IF regLast'.name \in DOMAIN functionsMap
                 THEN regPanic' /\ functionsMap' = functionsMap
                 ELSE /\ ~regPanic'
                      /\ functionsMap' =
                             MapPut(functionsMap, regLast'.name, regLast'.c)
       /\ regLast'.registry = "method" =>
              /\ functionsMap' = functionsMap
              /\ IF regLast'.name \in DOMAIN methodMap
                 THEN regPanic' /\ methodMap' = methodMap
                 ELSE /\ ~regPanic'
                      /\ methodMap' = MapPut(methodMap, regLast'.name, regLast'.c)
      ]_vars

(***************************************************************************)
(* The physical planner.  The planner's own code is not part of src; its   *)
(* loop, the ancestor search, dup, the removal of a procedure and the      *)
(* final order follow section 4.2 of the specification.  The filter's      *)
(* rule and PushDown are those of functions/filter.go.  Procedures of      *)
(* kinds group, limit and sum stay where they are.                         *)
(***************************************************************************)
NilFn == "nil"
ZeroBounds == [Start |-> 0, Stop |-> 0]

\* query.MinTime and query.Now: the bounds of a query without a range
MinTime == -1
Now == 4
DefaultBounds == [Start |-> MinTime, Stop |-> Now]

\* one record shape for all procedure specs; a field a kind does not have
\* keeps its zero value
ProcSpec(kind) ==
    [Kind |-> kind, BoundsSet |-> FALSE, Bounds |-> ZeroBounds,
     FilterSet |-> FALSE, Filter |-> NilFn, F |-> NilFn,
     DescendingSet |-> FALSE, Descending |-> FALSE,
     LimitSet |-> FALSE, Limit |-> 0]

FromProcedureSpec == ProcSpec("from")
SelectProcedureSpec == ProcSpec("select")
FirstProcedureSpec == ProcSpec("first")
LastProcedureSpec == ProcSpec("last")
RangeProcedureSpec(bounds) == [ProcSpec("range") EXCEPT !.Bounds = bounds]
FilterProcedureSpec(fn) == [ProcSpec("filter") EXCEPT !.F = fn]

Procedure(pid, pspec, parents, children) ==
    [ID |-> pid, Spec |-> pspec, Parents |-> parents, Children |-> children]

NoRule == [Root |-> "", Through |-> {}]

\* FilterProcedureSpec.PushDownRule
FilterPushDownRule ==
    [Root |-> "from", Through |-> {"group", "limit", "range"}]

\* the range fuses into the from it is a child of
RangePushDownRule == [Root |-> "from", Through |-> {}]

\* first and last fuse into the select they are a child of
SelectorPushDownRule == [Root |-> "select", Through |-> {}]

PushDownRule(pspec) ==
    CASE pspec.Kind = "filter" -> FilterPushDownRule
      [] pspec.Kind = "range" -> RangePushDownRule
      [] pspec.Kind \in {"first", "last"} -> SelectorPushDownRule
      [] OTHER -> NoRule

\* the id of the duplicate of a procedure
ProcedureIDForDuplicate(pid) == pid + MaxProcs

Without(seq, x) == SelectSeq(seq, LAMBDA y : y # x)
Replace(seq, x, ys) ==
    IF \E i \in DOMAIN seq : seq[i] = x
    THEN LET i == CHOOSE i \in DOMAIN seq : seq[i] = x
         IN SubSeq(seq, 1, i - 1) \o ys \o SubSeq(seq, i + 1, Len(seq))
    ELSE seq

\* dup: a copy of root under a derived id that takes over the branch of
\* `child`; the original keeps its spec and its other children
duplicate(procs, root, child) ==
    LET nid == ProcedureIDForDuplicate(root)
        np == [procs[root] EXCEPT !.ID = nid, !.Children = <<child>>]
    IN [x \in DOMAIN procs \cup {nid} |->
            IF x = nid THEN np
            ELSE IF x = root
            THEN [procs[root] EXCEPT !.Children = Without(@, child)]
            ELSE IF x = child
            THEN [procs[child] EXCEPT !.Parents = Replace(@, root, <<nid>>)]
            ELSE procs[x]]

\* a bug PushDown could have: the root is marked, the predicate is not kept
FilterPushDownNoPredicate(s, procs, root, child) ==
    IF procs[root].Spec.FilterSet
    THEN LET nid == ProcedureIDForDuplicate(root)
         IN [duplicate(procs, root, child) EXCEPT
                 ![nid].Spec.FilterSet = FALSE, ![nid].Spec.Filter = NilFn]
    ELSE [procs EXCEPT ![root].Spec.FilterSet = TRUE]

\* a bug PushDown could have: the duplicate is made, the root that was
\* handed in is the one that is changed
FilterPushDownInPlace(s, procs, root, child) ==
    IF procs[root].Spec.FilterSet
    THEN [duplicate(procs, root, child) EXCEPT
              ![root].Spec.FilterSet = FALSE, ![root].Spec.Filter = NilFn]
    ELSE [procs EXCEPT ![root].Spec.FilterSet = TRUE,
                       ![root].Spec.Filter = s.F]

\* FilterProcedureSpec.PushDown(root, dup)
FilterPushDown(s, procs, root, child) ==
    IF procs[root].Spec.FilterSet
    THEN LET nid == ProcedureIDForDuplicate(root)
         IN [duplicate(procs, root, child) EXCEPT
                 ![nid].Spec.FilterSet = FALSE, ![nid].Spec.Filter = NilFn]
    ELSE [procs EXCEPT ![root].Spec.FilterSet = TRUE,
                       ![root].Spec.Filter = s.F]

\* the range's PushDown: the bounds go to the root, or to a duplicate of a
\* root that has bounds already
RangePushDown(s, procs, root, child) ==
    IF procs[root].Spec.BoundsSet
    THEN LET nid == ProcedureIDForDuplicate(root)
         IN [duplicate(procs, root, child) EXCEPT
                 ![nid].Spec.BoundsSet = TRUE, ![nid].Spec.Bounds = s.Bounds]
    ELSE [procs EXCEPT ![root].Spec.BoundsSet = TRUE,
                       ![root].Spec.Bounds = s.Bounds]

\* what first and last leave in the spec of a source: one point, in
\* ascending order for first and in descending order for last
Selected(pspec, s) ==
    [pspec EXCEPT !.LimitSet = TRUE, !.Limit = 1,
                  !.DescendingSet = TRUE, !.Descending = (s.Kind = "last")]

\* a bug the push-down of first and last could have: the root is shared by
\* both branches and the later one overwrites the earlier
SelectorPushDownShared(s, procs, root, child) ==
    [procs EXCEPT ![root].Spec = Selected(@, s)]

\* the PushDown of first and last: into the root, or into a duplicate of a
\* root that has a limit or a direction already
SelectorPushDown(s, procs, root, child) ==
    IF procs[root].Spec.LimitSet \/ procs[root].Spec.DescendingSet
    THEN LET nid == ProcedureIDForDuplicate(root)
         IN [duplicate(procs, root, child) EXCEPT
                 ![nid].Spec = Selected(@, s)]
    ELSE [procs EXCEPT ![root].Spec = Selected(@, s)]

PushDown(s, procs, root, child) ==
    CASE s.Kind = "filter" -> FilterPushDown(s, procs, root, child)
      [] s.Kind = "range" -> RangePushDown(s, procs, root, child)
      [] OTHER -> SelectorPushDown(s, procs, root, child)

NoMatch == [found |-> FALSE, root |-> 0, child |-> 0]

\* walk the ancestors of pid: the root of the rule is reached through
\* procedures of the Through kinds that have exactly one child
RECURSIVE findRoot(_, _, _)
findRoot(procs, rule, pid) ==
    IF Len(procs[pid].Parents) # 1 THEN NoMatch
    ELSE LET pp == procs[procs[pid].Parents[1]]
         IN IF pp.Spec.Kind = rule.Root
            THEN [found |-> TRUE, root |-> pp.ID, child |-> pid]
            ELSE IF pp.Spec.Kind \in rule.Through /\ Len(pp.Children) = 1
            THEN findRoot(procs, rule, pp.ID)
            ELSE NoMatch

\* the procedure leaves the plan; its children become children of its
\* parents
removeProcedure(procs, pid) ==
    LET pr == procs[pid]
    IN [x \in DOMAIN procs \ {pid} |->
            [procs[x] EXCEPT
                 !.Children = Replace(@, pid, pr.Children),
                 !.Parents = Replace(@, pid, pr.Parents)]]

\* the place of a procedure among those that may come next in the order:
\* a duplicate follows its original
OrderKey(pid) ==
    ((pid - 1) % MaxProcs) * (MaxProcs + 1) + ((pid - 1) \div MaxProcs)

RECURSIVE topologicalOrder(_, _)
topologicalOrder(procs, placed) ==
    LET done == {placed[i] : i \in DOMAIN placed}
        ready == {x \in DOMAIN procs \ done :
                      \A i \in DOMAIN procs[x].Parents :
                          procs[x].Parents[i] \in done}
    IN IF ready = {} THEN placed
       ELSE LET x == CHOOSE x \in ready :
                         \A y \in ready : OrderKey(x) <= OrderKey(y)
            IN topologicalOrder(procs, Append(placed, x))

\* the results are the procedures without children
planResults(procs, order) ==
    SelectSeq(order, LAMBDA x : procs[x].Children = <<>>)

\* a source without a range above it takes the bounds of the query
withDefaultBounds(procs) ==
    [x \in DOMAIN procs |->
         IF procs[x].Spec.Kind \in {"from", "select"}
                /\ ~procs[x].Spec.BoundsSet
         THEN [procs[x] EXCEPT !.Spec.BoundsSet = TRUE,
                               !.Spec.Bounds = DefaultBounds]
         ELSE procs[x]]

NewPlan(lp) ==
    [phase |-> "planning", lp |-> lp, Procedures |-> lp.Procedures,
     next |-> 1, Results |-> <<>>, Order |-> <<>>]

\* one turn of the planner's loop over the logical order
planProcedure ==
    /\ plan.phase = "planning"
    /\ plan.next <= Len(plan.lp.Order)
    /\ LET pid == plan.lp.Order[plan.next]
           procs == plan.Procedures
           rule == PushDownRule(procs[pid].Spec)
           m == IF rule.Root = "" THEN NoMatch ELSE findRoot(procs, rule, pid)
       IN plan' = [plan EXCEPT
                       !.next = @ + 1,
                       !.Procedures =
                           IF m.found
                           THEN removeProcedure(
                                    PushDown(procs[pid].Spec, procs, m.root,
                                             m.child), pid)
                           ELSE procs]
    /\ UNCHANGED <<regVars, evVars, execVars>>

\* the loop is over: results and order of the physical plan
planFinish ==
    /\ plan.phase = "planning"
    /\ plan.next > Len(plan.lp.Order)
    /\ LET order == topologicalOrder(plan.Procedures, <<>>)
       IN plan' = [plan EXCEPT
                       !.phase = "physical",
                       !.Procedures = withDefaultBounds(@),
                       !.Order = order,
                       !.Results = planResults(plan.Procedures, order)]
    /\ UNCHANGED <<regVars, evVars, execVars>>

(***************************************************************************)
(* SpecPlan: the planner on every small logical plan that is a tree.       *)
(***************************************************************************)
Predicates == {"fnA", "fnB"}
RangeBounds == {[Start |-> 1, Stop |-> 2], [Start |-> 0, Stop |-> 3]}
SourceSpecs == {FromProcedureSpec, SelectProcedureSpec}
InnerSpecs ==
    {RangeProcedureSpec(b) : b \in RangeBounds}
        \cup {FilterProcedureSpec(fn) : fn \in Predicates}
        \cup {ProcSpec("group"), ProcSpec("limit"), ProcSpec("sum")}
        \cup {FirstProcedureSpec, LastProcedureSpec}

ChildrenOf(n, parent, pid) ==
    SelectSeq([i \in 1..n |-> i], LAMBDA x : x > 1 /\ parent[x] = pid)

\* the trees of n procedures: the parent of each procedure but the first
\* comes before it in the order 1..n
PlanShapes(n) == {q \in [2..n -> 1..n] : \A i \in 2..n : q[i] < i}

\* the logical plan of n procedures in the order 1..n
LogicalPlan(n, parent, source, inner) ==
    [Procedures |->
         [pid \in 1..n |->
              Procedure(pid, IF pid = 1 THEN source ELSE inner[pid],
                        IF pid = 1 THEN <<>> ELSE <<parent[pid]>>,
                        ChildrenOf(n, parent, pid))],
     Order |-> [i \in 1..n |-> i]]

InitPlan ==
    /\ RegInit
    /\ EvalInit
    /\ ExecIdle
    /\ \E n \in 1..MaxProcs :
           \E parent \in PlanShapes(n), source \in SourceSpecs,
              inner \in [2..n -> InnerSpecs] :
               plan = NewPlan(LogicalPlan(n, parent, source, inner))

NextPlan == planProcedure \/ planFinish

SpecPlan == InitPlan /\ [][NextPlan]_vars

KindsOf(lp) == [i \in DOMAIN lp.Procedures |-> lp.Procedures[i].Spec.Kind]
IsChain(lp) ==
    \A i \in DOMAIN lp.Procedures :
        i > 1 => lp.Procedures[i].Parents = <<i - 1>>

\* C10: the physical plan of from -> range -> filter is the single
\* procedure from with the filter's predicate and the range's bounds, and
\* it is the only result and the whole order; behind one procedure between
\* it and its root the filter is absorbed exactly when the root is a from
\* and the procedure between is a group, a limit or a range.
C10_FilterFusesPastRange ==
    plan.phase = "physical" =>
        LET lp == plan.lp
            kinds == KindsOf(lp)
        IN /\ (IsChain(lp) /\ kinds = <<"from", "range", "filter">>) =>
                  /\ DOMAIN plan.Procedures = {1}
                  /\ plan.Procedures[1].Spec =
                         [FromProcedureSpec EXCEPT
                              !.FilterSet = TRUE,
                              !.Filter = lp.Procedures[3].Spec.F,
                              !.BoundsSet = TRUE,
                              !.Bounds = lp.Procedures[2].Spec.Bounds]
                  /\ plan.Procedures[1].Children = <<>>
                  /\ plan.Results = <<1>>
                  /\ plan.Order = <<1>>
           /\ (/\ IsChain(lp)
               /\ Len(kinds) = 3
               /\ kinds[2] # "filter"
               /\ kinds[3] = "filter") =>
                  (3 \notin DOMAIN plan.Procedures <=>
                       /\ kinds[1] = "from"
                       /\ kinds[2] \in {"group", "limit", "range"})

\* from -> range -> filter was planned
C10_Witness ==
    /\ plan.phase = "physical"
    /\ IsChain(plan.lp)
    /\ KindsOf(plan.lp) = <<"from", "range", "filter">>
    /\ plan.Procedures[1].Spec.FilterSet
    /\ plan.Procedures[1].Spec.Filter = "fnB"
    /\ plan.Procedures[1].Spec.Bounds = [Start |-> 1, Stop |-> 2]

(***************************************************************************)
(* Push-downs that meet a root which has absorbed one already.             *)
(***************************************************************************)
\* the root the rule of the procedure the planner's loop is at leads to
AtMatch ==
    IF plan.phase = "planning" /\ plan.next <= Len(plan.lp.Order)
    THEN LET pid == plan.lp.Order[plan.next]
             rule == PushDownRule(plan.Procedures[pid].Spec)
         IN IF rule.Root = "" THEN NoMatch
            ELSE findRoot(plan.Procedures, rule, pid)
    ELSE NoMatch

\* the spec of the procedure the planner's loop is at
AtSpec == plan.Procedures[plan.lp.Order[plan.next]].Spec

\* the next turn of the loop pushes a filter into a root with FilterSet
FilterMeetsFilter ==
    /\ AtMatch.found
    /\ AtSpec.Kind = "filter"
    /\ plan.Procedures[AtMatch.root].Spec.FilterSet

\* the next turn of the loop pushes into a root that is duplicated for it
Duplicates ==
    /\ AtMatch.found
    /\ \/ AtSpec.Kind = "filter" /\ plan.Procedures[AtMatch.root].Spec.FilterSet
       \/ AtSpec.Kind = "range" /\ plan.Procedures[AtMatch.root].Spec.BoundsSet
       \/ /\ AtSpec.Kind \in {"first", "last"}
          /\ \/ plan.Procedures[AtMatch.root].Spec.LimitSet
             \/ plan.Procedures[AtMatch.root].Spec.DescendingSet

\* C11: a filter pushed into a from that has FilterSet already is absorbed
\* by the duplicate of that from: after the push-down the duplicate exists,
\* has FilterSet and carries the predicate of the filter that was pushed.
C11_DuplicateAbsorbsFilter ==
    [][FilterMeetsFilter =>
           LET nid == ProcedureIDForDuplicate(AtMatch.root)
           IN /\ nid \in DOMAIN plan'.Procedures
              /\ nid \notin DOMAIN plan.Procedures
              /\ plan'.Procedures[nid].Spec.FilterSet
              /\ plan'.Procedures[nid].Spec.Filter = AtSpec.F]_vars

\* C12: a push-down that duplicates its root leaves the spec of the
\* original as it was (a from with FilterSet keeps FilterSet, its predicate
\* and its bounds), and no later push-down changes the spec of an original
\* and the spec of its duplicate together.
C12_OriginalUnchanged ==
    [][/\ Duplicates =>
              /\ plan'.Procedures[AtMatch.root].Spec =
                     plan.Procedures[AtMatch.root].Spec
              /\ ProcedureIDForDuplicate(AtMatch.root)
                     \in DOMAIN plan'.Procedures
       /\ \A x \in DOMAIN plan.Procedures :
              LET nid == ProcedureIDForDuplicate(x)
              IN (plan'.phase = "planning"
                     /\ nid \in DOMAIN plan.Procedures
                     /\ x \in DOMAIN plan'.Procedures
                     /\ nid \in DOMAIN plan'.Procedures) =>
                     \/ plan'.Procedures[x].Spec = plan.Procedures[x].Spec
                     \/ plan'.Procedures[nid].Spec =
                            plan.Procedures[nid].Spec]_vars

\* filter B met the from that holds filter A and its bounds, and a later
\* filter went into the duplicate
C12_Witness ==
    /\ plan.phase = "physical"
    /\ KindsOf(plan.lp) = <<"from", "filter", "filter", "filter">>
    /\ plan.lp.Procedures[4].Parents = <<3>>
    /\ plan.lp.Procedures[3].Parents = <<1>>
    /\ DOMAIN plan.Procedures = {1, ProcedureIDForDuplicate(1)}
    /\ plan.Procedures[1].Spec.FilterSet
    /\ plan.Procedures[1].Spec.Filter = "fnA"
    /\ plan.Procedures[ProcedureIDForDuplicate(1)].Spec.FilterSet
    /\ plan.Procedures[ProcedureIDForDuplicate(1)].Spec.Filter = "fnB"

\* the logical plan is a source with the two children first and last, in
\* the order source, first, last
FirstThenLast ==
    /\ KindsOf(plan.lp) \in {<<"select", "first", "last">>}
    /\ plan.lp.Procedures[2].Parents = <<1>>
    /\ plan.lp.Procedures[3].Parents = <<1>>

\* C13: the physical plan of a source with the children first and last is
\* the original with Descending = FALSE and its duplicate with Descending =
\* TRUE and nothing else, each with LimitSet, limit 1, DescendingSet and the
\* bounds (MinTime, Now); Results and Order are <<original, duplicate>>.
\* With last before first the duplicate is the one with Descending = FALSE.
C13_BranchDuplicatesSource ==
    (/\ plan.phase = "physical"
     /\ Len(plan.lp.Order) = 3
     /\ KindsOf(plan.lp) \in {<<"select", "first", "last">>,
                              <<"select", "last", "first">>}
     /\ plan.lp.Procedures[3].Parents = <<1>>) =>
        LET nid == ProcedureIDForDuplicate(1)
            want(desc) ==
                [SelectProcedureSpec EXCEPT
                     !.BoundsSet = TRUE, !.Bounds = DefaultBounds,
                     !.LimitSet = TRUE, !.Limit = 1,
                     !.DescendingSet = TRUE, !.Descending = desc]
        IN /\ DOMAIN plan.Procedures = {1, nid}
           /\ plan.Procedures[1] =
                  Procedure(1, want(plan.lp.Procedures[2].Spec.Kind = "last"),
                            <<>>, <<>>)
           /\ plan.Procedures[nid] =
                  Procedure(nid,
                            want(plan.lp.Procedures[3].Spec.Kind = "last"),
                            <<>>, <<>>)
           /\ plan.Results = <<1, nid>>
           /\ plan.Order = <<1, nid>>

\* select with the children first and last was planned
C13_Witness ==
    /\ plan.phase = "physical"
    /\ Len(plan.lp.Order) = 3
    /\ FirstThenLast
    /\ plan.Procedures[ProcedureIDForDuplicate(1)].Spec.Descending
    /\ ~plan.Procedures[1].Spec.Descending

(***************************************************************************)
(* The filter transformation of functions/filter.go.  The compiler of the  *)
(* predicate, EvalBool, the builder cache and the blocks are not part of   *)
(* src; they follow section 4.5 of the specification and the blocks of     *)
(* TestFilter_Process.  A value is a record of its type, its number and    *)
(* its string, so that values of all types compare.                        *)
(***************************************************************************)
MaxRows == 2
MaxBlocks == 2

ValueDataTypes == {"bool", "int", "uint", "float", "string"}
ValueColLabel == "_value"

ValueOf(typ, n, str) == [T |-> typ, N |-> n, S |-> str]
ColMeta(label, typ, isCommon) ==
    [Label |-> label, Type |-> typ, IsCommon |-> isCommon]

\* the arrow function of a filter: its parameters and which predicate its
\* body is
FilterFunction(params, body) == [Params |-> params, Body |-> body]

\* execute.ObjectProperties: the properties of the parameter the body reads
ObjectProperties(f) ==
    CASE f.Body = "tag" -> <<"t2">>
      [] f.Body = "gtAndTag" -> <<"_value", "t2">>
      [] OTHER -> <<"_value">>

\* execute.CompileExpression with the value property of type typ: the
\* comparisons need a number, the body r._value has the type of the value
CompileExpression(f, typ) ==
    CASE f.Body = "tag" -> [Err |-> NoErr, Type |-> "bool"]
      [] f.Body = "value" -> [Err |-> NoErr, Type |-> typ]
      [] OTHER ->
           IF typ \in {"int", "uint", "float"}
           THEN [Err |-> NoErr, Type |-> "bool"]
           ELSE [Err |-> "type error", Type |-> ""]

NilExpr == [Body |-> "", Type |-> ""]
NilTransformation == [properties |-> <<>>]
expressionOrError(err, expr) == [Err |-> err, Expr |-> expr]

\* what NewFilterTransformation stores for one value type
compileFor(f, typ) ==
    LET ce == CompileExpression(f, typ)
    IN IF ce.Err = NoErr /\ ce.Type # "bool"
       THEN expressionOrError("expression does not evaluate to boolean",
                              NilExpr)
       ELSE expressionOrError(
                ce.Err,
                IF ce.Err = NoErr THEN [Body |-> f.Body, Type |-> typ]
                ELSE NilExpr)

\* a constructor that gives up at the first value type that does not compile
NewFilterTransformationStrict(pspec) ==
    IF Len(pspec.F.Params) # 1
           \/ \E typ \in ValueDataTypes : compileFor(pspec.F, typ).Err # NoErr
    THEN [t |-> NilTransformation, err |-> "type error"]
    ELSE [t |-> [properties |-> ObjectProperties(pspec.F),
                 scope |-> EmptyMap, scopeCols |-> EmptyMap,
                 ces |-> [typ \in ValueDataTypes |->
                              compileFor(pspec.F, typ)]],
          err |-> NoErr]

NewFilterTransformation(pspec) ==
    IF Len(pspec.F.Params) # 1
    THEN [t |-> NilTransformation,
          err |-> "filter functions should only have a single parameter"]
    ELSE [t |-> [properties |-> ObjectProperties(pspec.F),
                 scope |-> EmptyMap, scopeCols |-> EmptyMap,
                 ces |-> [typ \in ValueDataTypes |->
                              compileFor(pspec.F, typ)]],
          err |-> NoErr]

\* CompiledExpression.EvalBool: what the body says of the values in the
\* scope; the body mayFail reports a runtime error for the value 0, with
\* the boolean errPass
EvalBool(ce, sc, errPass) ==
    CASE ce.Body = "gt" -> [pass |-> sc["_value"].N > 5, err |-> NoErr]
      [] ce.Body = "tag" -> [pass |-> sc["t2"].S = "y", err |-> NoErr]
      [] ce.Body = "gtAndTag" ->
           [pass |-> sc["_value"].N > 5 /\ sc["t2"].S = "y", err |-> NoErr]
      [] ce.Body = "value" -> [pass |-> sc["_value"].N = 1, err |-> NoErr]
      [] OTHER ->
           IF sc["_value"].N = 0
           THEN [pass |-> errPass, err |-> "runtime error"]
           ELSE [pass |-> sc["_value"].N > 5, err |-> NoErr]

\* execute.Block: bounds, columns, the value of its common tag, rows
Block(bounds, cols, tags, data) ==
    [Bounds |-> bounds, ColMeta |-> cols, Tags |-> tags, Data |-> data]

\* execute.ValueIdx: the index (from 0) of the value column
ValueIdx(cols) ==
    IF \E j \in DOMAIN cols : cols[j].Label = ValueColLabel
    THEN (CHOOSE j \in DOMAIN cols : cols[j].Label = ValueColLabel) - 1
    ELSE -1

ToBlockKey(b) == [Bounds |-> b.Bounds, Tags |-> b.Tags]

\* cache.BlockBuilder: the builder of the block's key, made when there is
\* none
BlockBuilder(cache, b) ==
    IF ToBlockKey(b) \in DOMAIN cache
    THEN [builder |-> cache[ToBlockKey(b)], new |-> FALSE]
    ELSE [builder |-> [Bounds |-> b.Bounds, Tags |-> b.Tags,
                       ColMeta |-> <<>>, Data |-> <<>>],
          new |-> TRUE]

\* execute.AddBlockCols: the builder gets the columns of the block
AddBlockCols(b, builder) ==
    [builder EXCEPT !.ColMeta = b.ColMeta,
                    !.Data = [j \in DOMAIN b.ColMeta |-> <<>>]]

\* the loop of Process over the columns that fills t.scopeCols
RECURSIVE prepareScope(_, _, _, _)
prepareScope(scopeCols, cols, properties, j) ==
    IF j > Len(cols) THEN scopeCols
    ELSE prepareScope(
             IF cols[j].Label = ValueColLabel
             THEN MapPut(scopeCols, "_value", ValueIdx(cols))
             ELSE IF \E k \in DOMAIN properties :
                         properties[k] = cols[j].Label
             THEN MapPut(scopeCols, cols[j].Label, j - 1)
             ELSE scopeCols,
             cols, properties, j + 1)

\* t.scopeCols[label]: 0 for a label the map does not have
ScopeCol(scopeCols, label) ==
    IF label \in DOMAIN scopeCols THEN scopeCols[label] ELSE 0

\* execute.ValueForRow(i, j, rr)
ValueForRow(i, j, rr) == rr[i][j + 1]

\* t.scope after the loop over t.properties for row i
rowScope(t, rr, i) ==
    LET props == {t.properties[k] : k \in DOMAIN t.properties}
    IN [x \in props \cup DOMAIN t.scope |->
            IF x \in props
            THEN ValueForRow(i, ScopeCol(t.scopeCols, x), rr)
            ELSE t.scope[x]]

\* the loop over the columns that appends row i to the builder
appendRow(builder, cols, rr, i) ==
    [builder EXCEPT
         !.Data = [j \in DOMAIN builder.Data |->
                       IF cols[j].IsCommon THEN builder.Data[j]
                       ELSE Append(builder.Data[j], rr[i][j])]]

\* a bug the test of pass could have: the row is kept unless there is an
\* error
retainedUnlessError(r) == r.err = NoErr

\* if pass, err := ce.EvalBool(t.scope); !pass { ...; continue }
retained(r) == r.pass

\* the callback of DoTime: the loop over the rows
RECURSIVE filterRows(_, _, _, _, _, _, _)
filterRows(t, ce, builder, cols, rr, i, errPass) ==
    IF i > Len(rr) THEN [t |-> t, builder |-> builder]
    ELSE LET next(sc) ==
                 filterRows([t EXCEPT !.scope = sc], ce,
                            IF retained(EvalBool(ce, sc, errPass))
                            THEN appendRow(builder, cols, rr, i)
                            ELSE builder,
                            cols, rr, i + 1, errPass)
         IN next(rowScope(t, rr, i))

\* filterTransformation.Process
Process(t, cache, b, errPass) ==
    LET bb == BlockBuilder(cache, b)
        builder == IF bb.new THEN AddBlockCols(b, bb.builder) ELSE bb.builder
        cols == b.ColMeta
        t1 == [t EXCEPT !.scopeCols = prepareScope(@, cols, t.properties, 1)]
        exprErr == t.ces[cols[ValueIdx(cols) + 1].Type]
        done(r) == [t |-> r.t,
                    cache |-> MapPut(cache, ToBlockKey(b), r.builder),
                    err |-> NoErr]
    IN IF exprErr.Err # NoErr
       THEN [t |-> t1, cache |-> MapPut(cache, ToBlockKey(b), builder),
             err |-> "expression does not support type"]
       ELSE done(filterRows(t1, exprErr.Expr, builder, cols, b.Data, 1,
                            errPass))

NoCall == [n |-> 0]

\* createFilterTransformation
createFilterTransformation ==
    /\ filter.phase = "new"
    /\ LET r == NewFilterTransformation(filter.spec)
       IN filter' = [filter EXCEPT
                         !.phase = IF r.err = NoErr THEN "built" ELSE "failed",
                         !.t = r.t,
                         !.err = r.err]
    /\ UNCHANGED <<regVars, evVars, plan, storage, selector>>

\* the rows of a builder
BuilderRows(cache, key) ==
    IF key \in DOMAIN cache THEN Len(cache[key].Data[1]) ELSE 0

\* one call of Process with block b; a call that returns an error is the
\* last one
ProcessBlock(b, errPass) ==
    /\ filter.phase = "built"
    /\ filter.n < MaxBlocks
    /\ ToBlockKey(b) \in DOMAIN filter.cache =>
           filter.cache[ToBlockKey(b)].ColMeta = b.ColMeta
    /\ LET r == Process(filter.t, filter.cache, b, errPass)
       IN filter' = [filter EXCEPT
                         !.phase = IF r.err = NoErr THEN "built" ELSE "errored",
                         !.t = r.t,
                         !.cache = r.cache,
                         !.n = @ + 1,
                         !.last = [b |-> b, err |-> r.err, errPass |-> errPass,
                                   size |-> BuilderRows(filter.cache,
                                                        ToBlockKey(b))]]
    /\ UNCHANGED <<regVars, evVars, plan, storage, selector>>

(***************************************************************************)
(* SpecFilter: one filter, built and then given up to MaxBlocks blocks of  *)
(* up to MaxRows rows.  A block is of one of two layouts, its value column *)
(* is float or string, and it has every column the predicate reads.        *)
(***************************************************************************)
Bodies == {"gt", "tag", "gtAndTag", "value", "mayFail"}
ParamLists == {<<"r">>, <<"r", "s">>}
BlockBounds == {[Start |-> 1, Stop |-> 3], [Start |-> 3, Stop |-> 5]}
BlockKinds == {"float", "string"}

\* time, value
ColsA(typ) ==
    <<ColMeta("time", "time", FALSE), ColMeta(ValueColLabel, typ, FALSE)>>
\* time, t2, t1 (common), value
ColsB(typ) ==
    <<ColMeta("time", "time", FALSE), ColMeta("t2", "string", FALSE),
      ColMeta("t1", "string", TRUE), ColMeta(ValueColLabel, typ, FALSE)>>

\* row i of the data: values 6, 0, 6, 0, ... and tags x, y, y, x, y, y, ...
RowValue(typ, i) ==
    IF typ = "string" THEN ValueOf("string", 0, "s")
    ELSE ValueOf(typ, IF i % 2 = 1 THEN 6 ELSE 0, "")
RowTag(i) == ValueOf("string", 0, IF i % 3 = 1 THEN "x" ELSE "y")
RowA(typ, i) == <<ValueOf("time", i, ""), RowValue(typ, i)>>
RowB(typ, i) ==
    <<ValueOf("time", i, ""), RowTag(i), ValueOf("string", 0, "a"),
      RowValue(typ, i)>>

\* the blocks a filter with function f may be given
Blocks(f) ==
    {Block(bounds, ColsA(typ), "", [i \in 1..n |-> RowA(typ, i + o)]) :
         bounds \in BlockBounds, typ \in BlockKinds, n \in 0..MaxRows,
         o \in 0..1}
        \cup {Block(bounds, ColsB(typ), "a",
                    [i \in 1..n |-> RowB(typ, i + o)]) :
                  bounds \in BlockBounds, typ \in BlockKinds,
                  n \in 0..MaxRows, o \in 0..1}

HasColumns(b, f) ==
    \A k \in DOMAIN ObjectProperties(f) :
        \E j \in DOMAIN b.ColMeta :
            b.ColMeta[j].Label = ObjectProperties(f)[k]

InitFilter ==
    /\ RegInit
    /\ EvalInit
    /\ plan = NoPlan
    /\ storage = NoStorage
    /\ selector = NoSelector
    /\ \E params \in ParamLists, body \in Bodies :
           filter = [phase |-> "new",
                     spec |-> FilterProcedureSpec(FilterFunction(params, body)),
                     t |-> NilTransformation, err |-> NoErr,
                     cache |-> EmptyMap, n |-> 0, last |-> NoCall]

NextFilter ==
    \/ createFilterTransformation
    \/ \E b \in Blocks(filter.spec.F), errPass \in BOOLEAN :
           /\ HasColumns(b, filter.spec.F)
           /\ errPass => filter.spec.F.Body = "mayFail"
           /\ ProcessBlock(b, errPass)

SpecFilter == InitFilter /\ [][NextFilter]_vars

\* the value type of a block
ValueType(b) == b.ColMeta[ValueIdx(b.ColMeta) + 1].Type

\* the values of a row by the labels of their columns
LabelScope(b, row) ==
    [x \in {b.ColMeta[j].Label : j \in DOMAIN b.ColMeta} |->
         row[CHOOSE j \in DOMAIN b.ColMeta : b.ColMeta[j].Label = x]]

\* what the predicate says of the rows of the block that was processed last
Verdicts(f) ==
    [i \in DOMAIN f.last.b.Data |->
         EvalBool([Body |-> f.spec.F.Body, Type |-> ValueType(f.last.b)],
                  LabelScope(f.last.b, f.last.b.Data[i]), f.last.errPass)]

\* the rows of the last block the predicate is true of
TrueRows(f) ==
    LET v == Verdicts(f)
        pick == SelectSeq([i \in DOMAIN v |-> i], LAMBDA i : v[i].pass)
    IN [k \in DOMAIN pick |-> f.last.b.Data[pick[k]]]

\* what the last call of Process appended to column j of its builder
Appended(f, j) ==
    LET col == f.cache[ToBlockKey(f.last.b)].Data[j]
    IN SubSeq(col, f.last.size + 1, Len(col))

\* a turn of Process that returned no error
Processed == filter'.n = filter.n + 1 /\ filter'.last.err = NoErr

\* C14: a call of Process on a block whose value type has a compiled
\* predicate appends to the builder of the block's key exactly the rows the
\* predicate is true of, in their order, with the values of the columns that
\* are not common; common columns get nothing; the builder has the bounds
\* and the columns of the block and every other builder stays as it was.
\* (Rows whose evaluation reports an error together with true are left to
\* C16.)
C14_AppendsMatchingRows ==
    [][(/\ Processed
        /\ \A i \in DOMAIN Verdicts(filter') :
               Verdicts(filter')[i].err = NoErr \/ ~Verdicts(filter')[i].pass)
       => LET b == filter'.last.b
              key == ToBlockKey(b)
              new == filter'.cache[key]
              want == TrueRows(filter')
          IN /\ new.Bounds = b.Bounds
             /\ new.ColMeta = b.ColMeta
             /\ filter'.last.size = BuilderRows(filter.cache, key)
             /\ \A j \in DOMAIN b.ColMeta :
                    IF b.ColMeta[j].IsCommon
                    THEN new.Data[j] = <<>>
                    ELSE /\ Appended(filter', j) =
                                [k \in DOMAIN want |-> want[k][j]]
                         /\ key \in DOMAIN filter.cache =>
                                SubSeq(new.Data[j], 1, filter'.last.size) =
                                    filter.cache[key].Data[j]
             /\ DOMAIN filter'.cache = DOMAIN filter.cache \cup {key}
             /\ \A k \in DOMAIN filter.cache \ {key} :
                    filter'.cache[k] = filter.cache[k]
             /\ \A k \in DOMAIN filter'.cache :
                    filter'.cache[k].Bounds = k.Bounds]_vars

\* two blocks with different bounds went through the filter, the second
\* with a common tag, a row that passed and a row that did not
C14_Witness ==
    /\ filter.phase = "built"
    /\ filter.n = 2
    /\ filter.spec.F.Body = "gtAndTag"
    /\ Cardinality(DOMAIN filter.cache) = 2
    /\ Len(filter.last.b.ColMeta) = 4
    /\ Len(filter.last.b.Data) = 2
    /\ Len(TrueRows(filter)) = 1
    /\ Appended(filter, 4) = <<ValueOf("float", 6, "")>>

\* C15: the constructor fails only for a function that has not exactly one
\* parameter; it stores one outcome for each value type, an error exactly
\* when the predicate does not compile for the type or is not boolean; and
\* Process returns an error exactly when the outcome stored for the value
\* type of its block is an error.
C15_ErrorsPerKind ==
    /\ filter.phase = "failed" => Len(filter.spec.F.Params) # 1
    /\ filter.phase \in {"built", "errored"} =>
           /\ DOMAIN filter.t.ces = ValueDataTypes
           /\ \A typ \in ValueDataTypes :
                  filter.t.ces[typ].Err # NoErr <=>
                      \/ CompileExpression(filter.spec.F, typ).Err # NoErr
                      \/ CompileExpression(filter.spec.F, typ).Type # "bool"
           /\ filter.n > 0 =>
                  (filter.last.err # NoErr <=>
                       filter.t.ces[ValueType(filter.last.b)].Err # NoErr)

\* a filter on the value was built although it does not compile for
\* strings, took a float block and returned an error for a string block
C15_Witness ==
    /\ filter.phase = "errored"
    /\ filter.spec.F.Body = "gt"
    /\ filter.n = 2
    /\ ValueType(filter.last.b) = "string"
    /\ filter.last.err # NoErr
    /\ filter.t.ces["float"].Err = NoErr

\* C16: a row whose evaluation reports a runtime error is not appended,
\* whatever boolean comes with the error; the rows after it are still
\* looked at and the call returns no error.
C16_ErrorRowsSkipped ==
    [][(filter'.n = filter.n + 1
            /\ filter.t.ces[ValueType(filter'.last.b)].Err = NoErr)
       => LET v == Verdicts(filter')
              pick == SelectSeq([i \in DOMAIN v |-> i],
                                LAMBDA i : v[i].pass /\ v[i].err = NoErr)
          IN /\ filter'.last.err = NoErr
             /\ Appended(filter', 1) =
                    [k \in DOMAIN pick |-> filter'.last.b.Data[pick[k]][1]]
      ]_vars

(***************************************************************************)
(* The storage block iterator of query/execute (storage reader).  The      *)
(* stream is the list of the responses RecvMsg will still produce and the  *)
(* error it returns after the last one.  The loop of Do runs in one        *)
(* goroutine; the consumer, after it was handed a block, reads it through  *)
(* at most one value iterator, possibly from another goroutine, or not at  *)
(* all.  storage.log records who received a response and who removed which *)
(* frame.                                                                  *)
(***************************************************************************)
MaxFrames == 4

seriesType == "series"
integerPointsType == "integerPoints"
floatPointsType == "floatPoints"
EOF == "EOF"

\* a frame of a response: its kind, its place in the stream, and the number
\* of series frames up to it
Frame(kind, fid, blk) == [kind |-> kind, id |-> fid, blk |-> blk]

\* readState: the frames of the response read last, and the stream
ReadState(msgs, end) ==
    [rep |-> <<>>, msgs |-> msgs, end |-> end, recvErr |-> NoErr]

\* readState.more
more(rs) ==
    IF Len(rs.rep) > 0 THEN [ok |-> TRUE, rs |-> rs, recv |-> FALSE]
    ELSE IF rs.msgs = <<>>
    THEN [ok |-> FALSE, rs |-> [rs EXCEPT !.recvErr = rs.end], recv |-> TRUE]
    ELSE [ok |-> TRUE,
          rs |-> [rs EXCEPT !.rep = Head(rs.msgs), !.msgs = Tail(rs.msgs)],
          recv |-> TRUE]

\* readState.peek
peek(rs) == IF rs.rep = <<>> THEN Panic ELSE rs.rep[1].kind

\* readState.next
next(rs) == [frame |-> rs.rep[1], rs |-> [rs EXCEPT !.rep = Tail(@)]]

\* the log after a call of more and the removal of frames by party `by`
\* (0: the loop of Do, k: the value iterator of block k)
Logged(log, m, frames, by) ==
    log \o (IF m.recv THEN <<[op |-> "recv", by |-> by, id |-> 0, blk |-> 0,
                              kind |-> ""]>>
            ELSE <<>>)
        \o [i \in DOMAIN frames |->
                [op |-> "next", by |-> by, id |-> frames[i].id,
                 blk |-> frames[i].blk, kind |-> frames[i].kind]]

\* a wait that does not wait
waitSkipped(done, k) == TRUE

\* storageBlock.wait: <-b.done
wait(done, k) == done[k]

\* an advance that does not stop at a series frame
stopsNever(kind) == FALSE

\* advance: case seriesType: return false
stops(kind) == kind = seriesType

\* one turn of the loop of storageBlockIterator.Do, up to the call of f
Do ==
    /\ storage.phase = "reading"
    /\ storage.pc = "loop"
    /\ LET turn(m) ==
               IF ~m.ok
               THEN [storage EXCEPT !.data = m.rs, !.pc = "returned",
                                    !.log = Logged(@, m, <<>>, 0)]
               ELSE IF peek(m.rs) = Panic
               THEN [storage EXCEPT !.data = m.rs, !.pc = "panicked",
                                    !.log = Logged(@, m, <<>>, 0)]
               ELSE IF peek(m.rs) # seriesType
               THEN [storage EXCEPT !.data = m.rs, !.pc = "continue",
                                    !.log = Logged(@, m, <<>>, 0)]
               ELSE [storage EXCEPT
                         !.data = next(m.rs).rs,
                         !.pc = "callback",
                         !.nblocks = @ + 1,
                         !.done = Append(@, FALSE),
                         !.reads = Append(@, FALSE),
                         !.its = Append(@, "none"),
                         !.closes = Append(@, 0),
                         !.log = Logged(@, m, <<next(m.rs).frame>>, 0)]
       IN storage' = turn(more(storage.data))
    /\ UNCHANGED <<regVars, evVars, plan, filter, selector>>

\* `continue` for a frame that is not a series frame: back to the top of
\* the loop, the frame stays where it is
Continue ==
    /\ storage.phase = "reading"
    /\ storage.pc = "continue"
    /\ storage' = [storage EXCEPT !.pc = "loop"]
    /\ UNCHANGED <<regVars, evVars, plan, filter, selector>>

\* f(block) returns; the consumer will read the block or will not
Callback(reads) ==
    /\ storage.phase = "reading"
    /\ storage.pc = "callback"
    /\ storage' = [storage EXCEPT !.pc = "wait",
                                  !.reads[storage.nblocks] = reads]
    /\ UNCHANGED <<regVars, evVars, plan, filter, selector>>

\* block.wait() returns
Wait ==
    /\ storage.phase = "reading"
    /\ storage.pc = "wait"
    /\ wait(storage.done, storage.nblocks)
    /\ storage' = [storage EXCEPT !.pc = "loop"]
    /\ UNCHANGED <<regVars, evVars, plan, filter, selector>>

\* the consumer calls DoTime, DoFloat or DoString of the one value iterator
\* of block k
DoTime(k) ==
    /\ storage.phase = "reading"
    /\ storage.pc # "panicked"
    /\ storage.reads[k]
    /\ storage.its[k] = "none"
    /\ storage' = [storage EXCEPT !.its[k] = "advance"]
    /\ UNCHANGED <<regVars, evVars, plan, filter, selector>>

\* the consumer calls DoTime, DoFloat or DoString of a further value
\* iterator of block k (Times(), Values() and Col(i) each make a new one
\* with the block's stream and done channel) after an earlier one returned
DoTimeAgain(k) ==
    /\ storage.phase = "reading"
    /\ storage.pc # "panicked"
    /\ storage.reads[k]
    /\ storage.its[k] = "finished"
    /\ storage' = [storage EXCEPT !.its[k] = "advance"]
    /\ UNCHANGED <<regVars, evVars, plan, filter, selector>>

\* one call of storageBlockValueIterator.advance by the iterator of block k
advance(k) ==
    /\ storage.phase = "reading"
    /\ storage.pc # "panicked"
    /\ storage.its[k] = "advance"
    /\ LET turn(m) ==
               IF m.ok /\ peek(m.rs) = Panic
               THEN [storage EXCEPT !.data = m.rs, !.its[k] = "panicked",
                                    !.pc = "panicked",
                                    !.log = Logged(@, m, <<>>, k)]
               ELSE IF ~m.ok \/ stops(peek(m.rs))
               THEN [storage EXCEPT !.data = m.rs, !.its[k] = "close",
                                    !.log = Logged(@, m, <<>>, k)]
               ELSE [storage EXCEPT
                         !.data = next(m.rs).rs,
                         !.log = Logged(@, m, <<next(m.rs).frame>>, k)]
       IN storage' = turn(more(storage.data))
    /\ UNCHANGED <<regVars, evVars, plan, filter, selector>>

\* close(b.done) at the end of DoTime, DoFloat or DoString; closing a
\* closed channel panics
close(k) ==
    /\ storage.phase = "reading"
    /\ storage.pc # "panicked"
    /\ storage.its[k] = "close"
    /\ storage' = IF storage.done[k]
                  THEN [storage EXCEPT !.its[k] = "panicked",
                                       !.pc = "panicked",
                                       !.closes[k] = @ + 1]
                  ELSE [storage EXCEPT !.its[k] = "finished",
                                       !.done[k] = TRUE,
                                       !.closes[k] = @ + 1]
    /\ UNCHANGED <<regVars, evVars, plan, filter, selector>>

(***************************************************************************)
(* SpecStorage: Do on every stream of up to MaxFrames frames that starts   *)
(* with a series frame, cut into responses in every way, ending with EOF   *)
(* or with an error.                                                       *)
(***************************************************************************)
FrameKinds == {seriesType, integerPointsType, floatPointsType}
StreamEnds == {EOF, "error"}

\* the frames of kinds `kinds`, numbered
Frames(kinds) ==
    [i \in DOMAIN kinds |->
         Frame(kinds[i], i,
               Cardinality({j \in 1..i : kinds[j] = seriesType}))]

\* the frames cut into responses: cuts[i] says that a response ends with
\* frame i
RECURSIVE Responses(_, _, _, _)
Responses(frames, cuts, i, cur) ==
    IF i > Len(frames) THEN (IF cur = <<>> THEN <<>> ELSE <<cur>>)
    ELSE IF cuts[i]
    THEN <<Append(cur, frames[i])>> \o Responses(frames, cuts, i + 1, <<>>)
    ELSE Responses(frames, cuts, i + 1, Append(cur, frames[i]))

Reading(msgs, end) ==
    [phase |-> "reading", data |-> ReadState(msgs, end), pc |-> "loop",
     nblocks |-> 0, done |-> <<>>, reads |-> <<>>, its |-> <<>>,
     closes |-> <<>>, log |-> <<>>, err |-> NoErr]

InitStorage ==
    /\ RegInit
    /\ EvalInit
    /\ plan = NoPlan
    /\ filter = NoFilter
    /\ selector = NoSelector
    /\ \E n \in 0..MaxFrames :
           \E kinds \in [1..n -> FrameKinds], cuts \in [1..n -> BOOLEAN],
              end \in StreamEnds :
               /\ n > 0 => kinds[1] = seriesType
               /\ storage = Reading(Responses(Frames(kinds), cuts, 1, <<>>), end)

NextStorage ==
    \/ Do
    \/ \E reads \in BOOLEAN : Callback(reads)
    \/ Wait
    \/ \E k \in 1..MaxFrames : k <= storage.nblocks /\ DoTime(k)
    \/ \E k \in 1..MaxFrames : k <= storage.nblocks /\ advance(k)
    \/ \E k \in 1..MaxFrames : k <= storage.nblocks /\ close(k)

SpecStorage == InitStorage /\ [][NextStorage]_vars

\* the goroutines of the loop and of a consumer that reads are scheduled
SpecStorageLive ==
    /\ SpecStorage
    /\ WF_vars(Do)
    /\ WF_vars(\E reads \in BOOLEAN : Callback(reads))
    /\ WF_vars(Wait)
    /\ WF_vars(\E k \in 1..MaxFrames : k <= storage.nblocks /\ DoTime(k))
    /\ WF_vars(\E k \in 1..MaxFrames : k <= storage.nblocks /\ advance(k))
    /\ WF_vars(\E k \in 1..MaxFrames : k <= storage.nblocks /\ close(k))

\* what the step added to the log
NewLog == SubSeq(storage'.log, Len(storage.log) + 1, Len(storage'.log))

\* C17: the loop of Do receives no response, removes no frame and hands out
\* no further block while a block it handed to the consumer has not
\* signaled done: whenever it does one of these, every block handed out so
\* far is done.
C17_LoopWaitsForDone ==
    [][(\/ storage'.nblocks > storage.nblocks
        \/ \E i \in DOMAIN NewLog : NewLog[i].by = 0)
       => \A k \in 1..storage.nblocks : storage.done[k]]_vars

\* the second block was handed out after the iterator of the first had
\* removed a point frame and signaled done
C17_Witness ==
    /\ storage.phase = "reading"
    /\ storage.nblocks = 2
    /\ storage.done[1]
    /\ storage.pc = "callback"
    /\ \E i \in DOMAIN storage.log :
           storage.log[i].op = "next" /\ storage.log[i].by = 1

C19_UnreadBlockSkipped ==
    (storage.pc = "wait" /\ ~storage.reads[storage.nblocks])
        ~> (storage.pc \in {"loop", "returned"})

\* C20: after RecvMsg failed with an error that is not EOF the consumer has
\* been told of an error (storage.err is the error Do or a value iterator
\* handed to the consumer).
C20_ErrorReported ==
    (storage.phase = "reading" /\ storage.data.recvErr = "error")
        => storage.err # NoErr

(***************************************************************************)
(* The select source and the read request of the storage reader.           *)
(* createSelectSource turns the select procedure spec the planner left     *)
(* into a ReadSpec and bounds; storageReader.Read turns these into the     *)
(* ReadRequest sent to the storage service.  Times of the model are        *)
(* absolute, so resolving them leaves them as they are.                    *)
(***************************************************************************)
MaxLimit == 2

Databases == {"db0", "db1"}

\* the zero value of storage.ReadRequest
ZeroReadRequest ==
    [Database |-> "", Predicate |-> NilFn, Limit |-> 0,
     Descending |-> FALSE, TimestampRange |-> [Start |-> 0, End |-> 0]]

\* execute.ReadSpec as createSelectSource fills it
ReadSpec(database, pspec) ==
    [Database |-> database, Predicate |-> pspec.Filter,
     Limit |-> pspec.Limit, Descending |-> pspec.Descending]

\* the request storageReader.Read builds (req.Limit is not assigned)
Read(readSpec, start, stop) ==
    [ZeroReadRequest EXCEPT
         !.Database = readSpec.Database,
         !.Predicate = readSpec.Predicate,
         !.Descending = readSpec.Descending,
         !.TimestampRange = [Start |-> start, End |-> stop]]

\* createSelectSource: the storage source with its ReadSpec and bounds
createSelectSource ==
    /\ storage.phase = "spec"
    /\ storage' = [storage EXCEPT
                       !.phase = "source",
                       !.readSpec = ReadSpec(storage.database, storage.spec),
                       !.bounds = storage.spec.Bounds]
    /\ UNCHANGED <<regVars, evVars, plan, filter, selector>>

\* the source runs: it calls Read with its ReadSpec and its bounds
runSource ==
    /\ storage.phase = "source"
    /\ storage' = [storage EXCEPT
                       !.phase = "requested",
                       !.req = Read(storage.readSpec, storage.bounds.Start,
                                    storage.bounds.Stop)]
    /\ UNCHANGED <<regVars, evVars, plan, filter, selector>>

\* the select procedure specs planning leaves: bounds and predicate pushed
\* down or not, and a limit set by a pushed down first or last, by a limit,
\* or not at all
SelectSpecs ==
    LET based == {[SelectProcedureSpec EXCEPT
                       !.BoundsSet = TRUE, !.Bounds = b,
                       !.FilterSet = (f # NilFn), !.Filter = f] :
                  b \in RangeBounds \cup {DefaultBounds},
                  f \in Predicates \cup {NilFn}}
    IN based
       \cup {Selected(p, s) : p \in based,
                              s \in {FirstProcedureSpec, LastProcedureSpec}}
       \cup {[p EXCEPT !.LimitSet = TRUE, !.Limit = n] :
                 p \in based, n \in 0..MaxLimit}

InitRead ==
    /\ RegInit
    /\ EvalInit
    /\ plan = NoPlan
    /\ filter = NoFilter
    /\ selector = NoSelector
    /\ \E database \in Databases, pspec \in SelectSpecs :
           storage = [phase |-> "spec", database |-> database,
                      spec |-> pspec, readSpec |-> ReadSpec("", SelectProcedureSpec),
                      bounds |-> ZeroBounds, req |-> ZeroReadRequest]

NextRead == createSelectSource \/ runSource

SpecRead == InitRead /\ [][NextRead]_vars

\* C21: the request sent to the storage service carries the limit, the
\* database, the predicate and the descending flag of the select procedure
\* spec, and its bounds as the timestamp range.
C21_LimitReachesRequest ==
    storage.phase = "requested" =>
        /\ storage.req.Limit = storage.spec.Limit
        /\ storage.req.Database = storage.database
        /\ storage.req.Predicate = storage.spec.Filter
        /\ storage.req.Descending = storage.spec.Descending
        /\ storage.req.TimestampRange =
               [Start |-> storage.spec.Bounds.Start,
                End |-> storage.spec.Bounds.Stop]

\* what does hold: everything but the limit is carried through
C21_RestReachesRequest ==
    storage.phase = "requested" =>
        /\ storage.readSpec.Limit = storage.spec.Limit
        /\ storage.req.Database = storage.database
        /\ storage.req.Predicate = storage.spec.Filter
        /\ storage.req.Descending = storage.spec.Descending
        /\ storage.req.TimestampRange =
               [Start |-> storage.spec.Bounds.Start,
                End |-> storage.spec.Bounds.Stop]

(***************************************************************************)
(* The max selector (functions/max.go).  A per-kind selector is created by *)
(* NewIntSelector, NewUIntSelector or NewFloatSelector and is then called  *)
(* once per frame with the values of the frame and a reader of its rows.   *)
(* A value is a number or, for float64, NaN; a row is the time and value   *)
(* it was read with and the frame it was read from.  selector.seen is the  *)
(* history of the rows handed to the selector.                             *)
(***************************************************************************)
MaxCalls == 3
MaxVals == 2

SelectorKinds == {"int", "uint", "float"}

Num(n) == [nan |-> FALSE, n |-> n]
NaN == [nan |-> TRUE, n |-> 0]

\* v > w of Go: false when either side is NaN
Greater(v, w) == ~v.nan /\ ~w.nan /\ v.n > w.n

\* execute.ReadRow(idx, rr): row idx of the frame behind the reader
ReadRow(idx, rr) == rr[idx + 1]

\* new(MaxIntSelector), new(MaxUIntSelector), new(MaxFloatSelector)
NewSelector(kind) ==
    [phase |-> "selecting", kind |-> kind, set |-> FALSE, max |-> Num(0),
     rows |-> <<>>, ncalls |-> 0, seen |-> <<>>]

\* MaxSelector.Rows
Rows(s) == IF ~s.set THEN <<>> ELSE s.rows

\* MaxSelector.selectRow
selectRow(s, idx, rr) ==
    IF idx >= 0 THEN [s EXCEPT !.rows = <<ReadRow(idx, rr)>>] ELSE s

\* the loop of DoInt, DoUInt and DoFloat from index i on
RECURSIVE maxLoop(_, _, _, _)
maxLoop(s, vs, i, maxIdx) ==
    IF i >= Len(vs) THEN [s |-> s, maxIdx |-> maxIdx]
    ELSE IF ~s.set \/ Greater(vs[i + 1], s.max)
    THEN maxLoop([s EXCEPT !.set = TRUE, !.max = vs[i + 1]], vs, i + 1, i)
    ELSE maxLoop(s, vs, i + 1, maxIdx)

\* MaxIntSelector.DoInt, MaxUIntSelector.DoUInt, MaxFloatSelector.DoFloat
DoIntOf(s, vs, rr) ==
    LET r == maxLoop(s, vs, 0, -1) IN selectRow(r.s, r.maxIdx, rr)

\* the values a selector of each kind can be given
ValuesOf(kind) ==
    CASE kind = "int" -> {Num(-1), Num(0), Num(1)}
      [] kind = "uint" -> {Num(0), Num(1), Num(2)}
      [] OTHER -> {Num(-1), Num(1), NaN}

\* the rows of a frame with values vs that comes after `before` rows, as
\* call number `frame`: times grow along the stream
FrameRows(vs, before, frame) ==
    [i \in DOMAIN vs |->
         [time |-> before + i, value |-> vs[i], frame |-> frame]]

\* one call of DoInt, DoUInt or DoFloat with the values and rows of a frame
DoInt(vs) ==
    /\ selector.phase = "selecting"
    /\ selector.ncalls < MaxCalls
    /\ LET rr == FrameRows(vs, Len(selector.seen), selector.ncalls + 1)
       IN selector' = [DoIntOf(selector, vs, rr) EXCEPT
                           !.ncalls = @ + 1, !.seen = @ \o rr]
    /\ UNCHANGED <<regVars, evVars, plan, filter, storage>>

InitMax ==
    /\ RegInit
    /\ EvalInit
    /\ plan = NoPlan
    /\ filter = NoFilter
    /\ storage = NoStorage
    /\ \E kind \in SelectorKinds : selector = NewSelector(kind)

NextMax ==
    /\ selector.phase = "selecting"
    /\ \E n \in 0..MaxVals :
           \E vs \in [1..n -> ValuesOf(selector.kind)] : DoInt(vs)

SpecMax == InitMax /\ [][NextMax]_vars

\* the rows seen whose value no row seen exceeds
Maximal(seen) ==
    {i \in DOMAIN seen :
         \A j \in DOMAIN seen : ~Greater(seen[j].value, seen[i].value)}

NoNaN(seen) == \A i \in DOMAIN seen : ~seen[i].value.nan

\* C22: when several of the rows seen carry the maximal value, the row the
\* max selector holds is the one with the latest time among them.
C22_TieKeepsLatest ==
    (selector.phase = "selecting" /\ selector.seen # <<>>
         /\ NoNaN(selector.seen))
        => \E i \in Maximal(selector.seen) :
               /\ Rows(selector) = <<selector.seen[i]>>
               /\ \A j \in Maximal(selector.seen) :
                      selector.seen[j].time <= selector.seen[i].time

\* what the code does: among equal maxima the earliest row is kept
C22_TieKeepsEarliest ==
    (selector.phase = "selecting" /\ selector.seen # <<>>
         /\ NoNaN(selector.seen))
        => \E i \in Maximal(selector.seen) :
               /\ Rows(selector) = <<selector.seen[i]>>
               /\ \A j \in Maximal(selector.seen) :
                      selector.seen[j].time >= selector.seen[i].time

\* m is the maximum of the values of the rows seen: no value seen is greater,
\* and m is a number unless every value seen is NaN
IsMaximum(m, seen) ==
    /\ \A j \in DOMAIN seen : ~Greater(seen[j].value, m)
    /\ m.nan => \A j \in DOMAIN seen : seen[j].value.nan

\* C29: after any sequence of calls of DoInt, DoUInt or DoFloat on one
\* selector, Rows() is nil exactly when no value was seen; otherwise it
\* holds one row, which is a row of the frame it was read from, and the value
\* of that row is the maximum of the values seen in all calls.
C29_RowsHoldMaximum ==
    selector.phase = "selecting" =>
        /\ (Rows(selector) = <<>>) <=> (selector.seen = <<>>)
        /\ selector.seen # <<>> =>
               \E i \in DOMAIN selector.seen :
                   /\ Rows(selector) = <<selector.seen[i]>>
                   /\ IsMaximum(selector.seen[i].value, selector.seen)

\* what does hold: the same when no value seen is NaN
C29_RowsHoldMaximumOfNumbers ==
    (selector.phase = "selecting" /\ NoNaN(selector.seen)) =>
        /\ (Rows(selector) = <<>>) <=> (selector.seen = <<>>)
        /\ selector.seen # <<>> =>
               \E i \in DOMAIN selector.seen :
                   /\ Rows(selector) = <<selector.seen[i]>>
                   /\ IsMaximum(selector.seen[i].value, selector.seen)

(***************************************************************************)
(* The storage block iterator on every stream: the first frame can be a    *)
(* point frame and a response can carry no frame at all.                   *)
(* SpecStorageRead has the consumer the iterator is written for, which     *)
(* reads every block with one value iterator, and schedules every          *)
(* goroutine.  SpecStorageAny has every consumer: it reads a block or does *)
(* not, and it can run further value iterators on a block it has read.     *)
(***************************************************************************)
MaxAnyFrames == 3

\* the responses msgs with a response without frames put in at place p
\* (nowhere when p = 0)
WithEmpty(msgs, p) ==
    IF p = 0 \/ p > Len(msgs) + 1 THEN msgs
    ELSE SubSeq(msgs, 1, p - 1) \o << <<>> >> \o SubSeq(msgs, p, Len(msgs))

InitStorageRead ==
    /\ RegInit
    /\ EvalInit
    /\ plan = NoPlan
    /\ filter = NoFilter
    /\ selector = NoSelector
    /\ \E n \in 0..MaxAnyFrames :
           \E kinds \in [1..n -> FrameKinds], cuts \in [1..n -> BOOLEAN],
              end \in StreamEnds :
               storage = Reading(Responses(Frames(kinds), cuts, 1, <<>>), end)

NextStorageRead ==
    \/ Do
    \/ Continue
    \/ Callback(TRUE)
    \/ Wait
    \/ \E k \in 1..MaxAnyFrames : k <= storage.nblocks /\ DoTime(k)
    \/ \E k \in 1..MaxAnyFrames : k <= storage.nblocks /\ advance(k)
    \/ \E k \in 1..MaxAnyFrames : k <= storage.nblocks /\ close(k)

\* the loop of Do and the goroutines of the consumer are scheduled
SpecStorageRead ==
    /\ InitStorageRead
    /\ [][NextStorageRead]_vars
    /\ WF_vars(Do)
    /\ WF_vars(Continue)
    /\ WF_vars(Callback(TRUE))
    /\ WF_vars(Wait)
    /\ WF_vars(\E k \in 1..MaxAnyFrames : k <= storage.nblocks /\ DoTime(k))
    /\ WF_vars(\E k \in 1..MaxAnyFrames : k <= storage.nblocks /\ advance(k))
    /\ WF_vars(\E k \in 1..MaxAnyFrames : k <= storage.nblocks /\ close(k))

InitStorageAny ==
    /\ RegInit
    /\ EvalInit
    /\ plan = NoPlan
    /\ filter = NoFilter
    /\ selector = NoSelector
    /\ \E n \in 0..MaxAnyFrames :
           \E kinds \in [1..n -> FrameKinds], cuts \in [1..n -> BOOLEAN],
              p \in 0..(n + 1), end \in StreamEnds :
               storage = Reading(WithEmpty(Responses(Frames(kinds), cuts,
                                                     1, <<>>), p), end)

NextStorageAny ==
    \/ Do
    \/ Continue
    \/ \E reads \in BOOLEAN : Callback(reads)
    \/ Wait
    \/ \E k \in 1..MaxAnyFrames : k <= storage.nblocks /\ DoTime(k)
    \/ \E k \in 1..MaxAnyFrames : k <= storage.nblocks /\ DoTimeAgain(k)
    \/ \E k \in 1..MaxAnyFrames : k <= storage.nblocks /\ advance(k)
    \/ \E k \in 1..MaxAnyFrames : k <= storage.nblocks /\ close(k)

SpecStorageAny == InitStorageAny /\ [][NextStorageAny]_vars

\* the series frames the loop of Do removed, in the order of the log
SeriesDelivered ==
    SelectSeq(storage.log,
              LAMBDA e : e.op = "next" /\ e.kind = seriesType /\ e.by = 0)

\* C23: with a consumer that reads every block with one value iterator, Do
\* returns on every finite stream, after it has handed out one block per
\* series frame in the order of the stream and the stream has ended.
C23_DoTerminates ==
    <>(/\ storage.pc = "returned"
       /\ storage.data.rep = <<>> /\ storage.data.msgs = <<>>
       /\ Len(SeriesDelivered) = storage.nblocks
       /\ \A i \in DOMAIN SeriesDelivered : SeriesDelivered[i].blk = i
       /\ \A i \in DOMAIN storage.log :
              storage.log[i].op = "next" /\ storage.log[i].kind = seriesType
                  => storage.log[i].by = 0)

\* what does hold: Do returns unless it comes to a point frame, which only
\* the first frame of the stream can be
C23_DoReturnsOrSpins ==
    <>(storage.pc \in {"returned", "continue"})

\* C24: the done channel of a block is closed at most once, whatever
\* accessors the consumer runs on the block.
C24_DoneClosedOnce ==
    storage.phase = "reading" =>
        \A k \in 1..storage.nblocks : storage.closes[k] <= 1

\* C25: whenever more() returns true a frame is buffered: this holds for
\* the call of more the loop of Do or a value iterator is about to make.
C25_MoreMeansFrame ==
    (/\ storage.phase = "reading"
     /\ \/ storage.pc = "loop"
        \/ /\ storage.pc # "panicked"
           /\ \E k \in 1..storage.nblocks : storage.its[k] = "advance")
        => LET buffered(m) == m.ok => Len(m.rs.rep) > 0
           IN buffered(more(storage.data))

\* the link made last on chain c: the last call of callFunction that started
\* or extended it
LastLink(c) ==
    links[CHOOSE i \in DOMAIN links :
              /\ links[i].chain = c
              /\ \A j \in DOMAIN links : links[j].chain = c => j <= i]

\* C26: chains derived from one variable are independent: a chain holds the
\* operations and edges it held after the call that extended it last, until
\* it is drained, whatever other chains derived from the same variable were
\* extended since.
C26_DerivedChainsIndependent ==
    \A c \in DOMAIN chains :
        (/\ \E i \in DOMAIN links : links[i].chain = c
         /\ chains[c].Operations.len > 0)
            => /\ Elems(opArrays, chains[c].Operations) = LastLink(c).opsAfter
               /\ Elems(edgeArrays, chains[c].Edges) = LastLink(c).edgesAfter

(***************************************************************************)
(* SpecFilterAny: the filter of SpecFilter given every block, also blocks  *)
(* without a column the predicate reads.                                   *)
(***************************************************************************)
NextFilterAny ==
    \/ createFilterTransformation
    \/ \E b \in Blocks(filter.spec.F), errPass \in BOOLEAN :
           /\ errPass => filter.spec.F.Body = "mayFail"
           /\ ProcessBlock(b, errPass)

SpecFilterAny == InitFilter /\ [][NextFilterAny]_vars

\* the value the row loop of the last call of Process put in the scope for
\* property x at row i
ScopeValue(f, x, i) ==
    ValueForRow(i, ScopeCol(f.t.scopeCols, x), f.last.b.Data)

\* C27: for every row of a block the filter processed and every property
\* the predicate reads, the value put in the scope is the value of the row
\* in the column of this block that has the property as its label.
C27_ScopeFromCurrentBlock ==
    (filter.phase = "built" /\ filter.n > 0) =>
        \A i \in DOMAIN filter.last.b.Data :
            \A k \in DOMAIN filter.t.properties :
                \E j \in DOMAIN filter.last.b.ColMeta :
                    /\ filter.last.b.ColMeta[j].Label = filter.t.properties[k]
                    /\ ScopeValue(filter, filter.t.properties[k], i) =
                           filter.last.b.Data[i][j]

\* C28: a call of Process that returns the error of the block's value type
\* leaves the builder cache as it was: no builder made, no column added, no
\* row appended.
C28_ErrorLeavesCache ==
    [][(filter'.n = filter.n + 1 /\ filter'.last.err # NoErr)
           => filter'.cache = filter.cache]_vars

====
